---- MODULE Spec2Model ----
(***************************************************************************)
(* A model of usd.py: the readers that segment a paper into regions, the   *)
(* keyword extractors that build the heuristic candidate, the topic        *)
(* classifier, the selection between the model candidate and the           *)
(* heuristic candidate, and the batch and single-paper analyses.           *)
(*                                                                         *)
(* Text is a sequence of one-character strings, so that len(), slicing,    *)
(* lower(), strip(), split() and "in" are computed character by character. *)
(* A non-ASCII character is one element written by its code point, such    *)
(* as "u975E".                                                             *)
(***************************************************************************)
EXTENDS Integers, Sequences, FiniteSets, TLC

\* ------------------------------------------------------------------------
\* Python's string operations
\* ------------------------------------------------------------------------

Min(S) == CHOOSE m \in S : \A x \in S : m <= x

MinOf(a, b) == IF a <= b THEN a ELSE b

UpperLetters == <<"A","B","C","D","E","F","G","H","I","J","K","L","M","N","O","P","Q","R","S","T","U","V","W","X","Y","Z">>

LowerLetters == <<"a","b","c","d","e","f","g","h","i","j","k","l","m","n","o","p","q","r","s","t","u","v","w","x","y","z">>

UPPERCASE == {UpperLetters[i] : i \in 1..26}

LOWERCASE == {LowerLetters[i] : i \in 1..26}

LowerMap == [c \in UPPERCASE |-> LowerLetters[CHOOSE i \in 1..26 : UpperLetters[i] = c]]

\* str.lower(), one character
LowerChar(c) == IF c \in UPPERCASE THEN LowerMap[c] ELSE c

\* str.lower()
Lower(s) == [i \in 1..Len(s) |-> LowerChar(s[i])]

\* whether kw occurs in s at the 1-based position i
MatchAt(s, kw, i) == /\ i + Len(kw) - 1 <= Len(s)
                     /\ \A j \in 1..Len(kw) : s[i + j - 1] = kw[j]

\* kw in s, for a kw that is not empty
Contains(s, kw) ==
    \E i \in 1..(Len(s) - Len(kw) + 1) :
        s[i] = kw[1] /\ \A j \in 2..Len(kw) : s[i + j - 1] = kw[j]

\* any(kw in s for kw in kws)
ContainsAny(s, kws) == \E kw \in kws : Contains(s, kw)

\* s.find(kw): the 0-based index of the first occurrence, -1 when there is none
Find(s, kw) == IF Contains(s, kw)
               THEN (CHOOSE i \in 1..(Len(s) - Len(kw) + 1) :
                        /\ MatchAt(s, kw, i)
                        /\ \A j \in 1..(i - 1) : ~MatchAt(s, kw, j)) - 1
               ELSE -1

\* s.startswith(kw)
StartsWith(s, kw) == MatchAt(s, kw, 1)

\* s[a:b] for 0 <= a, 0 <= b
Slice(s, a, b) == SubSeq(s, a + 1, MinOf(b, Len(s)))

\* s[a:] for 0 <= a
SliceFrom(s, a) == SubSeq(s, a + 1, Len(s))

\* the characters str.strip() removes, among those the model's texts use
WHITESPACE == {" ", "\n", "\t"}

\* s.strip()
Strip(s) == IF \A i \in 1..Len(s) : s[i] \in WHITESPACE
            THEN << >>
            ELSE LET first == CHOOSE i \in 1..Len(s) :
                                 /\ s[i] \notin WHITESPACE
                                 /\ \A j \in 1..(i - 1) : s[j] \in WHITESPACE
                     last == CHOOSE i \in 1..Len(s) :
                                 /\ s[i] \notin WHITESPACE
                                 /\ \A j \in (i + 1)..Len(s) : s[j] \in WHITESPACE
                 IN  SubSeq(s, first, last)

\* re.split(r'[...]', s) and s.split(c) for one-character separators: the
\* pieces between the separators from the 1-based position start on, empty
\* pieces kept
RECURSIVE SplitFrom(_, _, _)
SplitFrom(s, seps, start) ==
    IF \E i \in start..Len(s) : s[i] \in seps
    THEN LET cut == CHOOSE i \in start..Len(s) :
                       /\ s[i] \in seps
                       /\ \A j \in start..(i - 1) : s[j] \notin seps
         IN  <<SubSeq(s, start, cut - 1)>> \o SplitFrom(s, seps, cut + 1)
    ELSE <<SubSeq(s, start, Len(s))>>

Split(s, seps) == SplitFrom(s, seps, 1)

\* s.split(sep)[0] for a separator of any length
BeforeFirst(s, sep) == IF Contains(s, sep) THEN SubSeq(s, 1, Find(s, sep)) ELSE s

\* list[:n]
Take(list, n) == SubSeq(list, 1, MinOf(n, Len(list)))

\* sep.join(list), by halves
RECURSIVE Join(_, _)
Join(list, sep) ==
    IF list = << >> THEN << >>
    ELSE IF Len(list) = 1 THEN list[1]
    ELSE Join(SubSeq(list, 1, Len(list) \div 2), sep) \o sep
             \o Join(SubSeq(list, (Len(list) \div 2) + 1, Len(list)), sep)

\* str.isupper() / str.islower() of one character
IsCased(c) == c \in UPPERCASE \/ c \in LOWERCASE

\* s.isupper(): no lowercase character and at least one uppercase one
IsUpper(s) == /\ \E i \in 1..Len(s) : s[i] \in UPPERCASE
              /\ \A i \in 1..Len(s) : s[i] \notin LOWERCASE

\* s.istitle(): an uppercase character only after an uncased one, a lowercase
\* character only after a cased one, and at least one cased character
IsTitle(s) == /\ \E i \in 1..Len(s) : IsCased(s[i])
              /\ \A i \in 1..Len(s) :
                    /\ s[i] \in UPPERCASE => (i = 1 \/ ~IsCased(s[i - 1]))
                    /\ s[i] \in LOWERCASE => (i > 1 /\ IsCased(s[i - 1]))

\* ------------------------------------------------------------------------
\* Configuration
\* ------------------------------------------------------------------------

SUPPORTED_FORMATS == {<<".","p","d","f">>, <<".","d","o","c","x">>, <<".","d","o","c">>, <<".","t","x","t">>}

\* CORE_FIELDS["innovation_point"]["pseudo_code"], the fixed value of a paper
\* that is not YOLO related
PSEUDO_CODE_SENTINEL == <<"u975E","Y","O","L","O","u7CFB","u5217","u8BBA","u6587","uFF0C","u65E0","u9700","u751F","u6210","u4F2A","u4EE3","u7801">>

\* FIELD_EXTRACTION_KEYWORDS, the entries the extractors read
INNOVATION_KEYWORDS ==
    {<<"i","n","n","o","v","a","t","i","o","n">>, <<"n","o","v","e","l">>, <<"p","r","o","p","o","s","e">>, <<"p","r","o","p","o","s","e","d">>, <<"b","r","e","a","k","t","h","r","o","u","g","h">>, <<"i","m","p","r","o","v","e","m","e","n","t">>}

METRIC_KEYWORDS ==
    {<<"m","e","t","r","i","c">>, <<"a","c","c","u","r","a","c","y">>, <<"p","e","r","p","l","e","x","i","t","y">>, <<"b","l","e","u">>, <<"m","a","p">>, <<"f","1">>, <<"p","r","e","c","i","s","i","o","n">>, <<"r","e","c","a","l","l">>}

CONCLUSION_KEYWORDS ==
    {<<"c","o","n","c","l","u","s","i","o","n">>, <<"f","i","n","d">>, <<"f","i","n","d","i","n","g">>, <<"c","o","n","c","l","u","d","e">>, <<"s","h","o","w"," ","t","h","a","t">>, <<"d","e","m","o","n","s","t","r","a","t","e">>}

\* ------------------------------------------------------------------------
\* The readers: the decoded units of a file (the pages of a PDF, the
\* paragraphs of a Word file, the lines of a text file) to the regions
\* ------------------------------------------------------------------------

DecimalDigits == <<"0","1","2","3","4","5","6","7","8","9">>

\* str(n) for n >= 0
RECURSIVE Decimal(_)
Decimal(n) == IF n < 10 THEN <<DecimalDigits[n + 1]>>
              ELSE Decimal(n \div 10) \o <<DecimalDigits[(n % 10) + 1]>>

\* the pages read_pdf scans
PDF_MAX_PAGES == 10

\* the experiments length from which read_pdf adds no further page
PDF_EXPERIMENTS_CAP == 5000

\* the characters of a page read_pdf copies into experiments
PDF_EXPERIMENTS_SLICE == 2000

PDF_EXPERIMENT_KEYWORDS == {<<"e","x","p","e","r","i","m","e","n","t">>, <<"r","e","s","u","l","t">>, <<"e","v","a","l","u","a","t","i","o","n">>}

\* the text after the first occurrence of token, stripped, up to the first
\* blank line: page_text[start:].strip().split("\n\n")[0]
RegionAfter(page_text, token) ==
    LET start == Find(Lower(page_text), token) + Len(token)
    IN  BeforeFirst(Strip(SliceFrom(page_text, start)), <<"\n","\n">>)

\* a variant of ReadPdfPage that adds to experiments whatever its length
ReadPdfPageUncapped(content, page_text, page_num) ==
    LET page_text_lower == Lower(page_text)
        number == Decimal(page_num + 1)
    IN  [content EXCEPT
           !.full_text = @ \o <<"u3010","u7B2C">> \o number \o <<"u9875","u3011","\n">> \o page_text \o <<"\n">>,
           !.abstract =
               IF Contains(page_text_lower, <<"a","b","s","t","r","a","c","t">>) /\ @ = << >>
               THEN RegionAfter(page_text, <<"a","b","s","t","r","a","c","t">>)
               ELSE @,
           !.experiments =
               IF ContainsAny(page_text_lower, PDF_EXPERIMENT_KEYWORDS)
               THEN @ \o <<"u3010","u7B2C">> \o number \o <<"u9875","u5B9E","u9A8C","u5185","u5BB9","u3011","\n">>
                      \o Slice(page_text, 0, PDF_EXPERIMENTS_SLICE) \o <<"\n">>
               ELSE @,
           !.conclusion =
               IF Contains(page_text_lower, <<"c","o","n","c","l","u","s","i","o","n">>) /\ @ = << >>
               THEN RegionAfter(page_text, <<"c","o","n","c","l","u","s","i","o","n">>)
               ELSE @]

\* one pass of read_pdf's loop, for the 0-based page_num
ReadPdfPage(content, page_text, page_num) ==
    LET page_text_lower == Lower(page_text)
        number == Decimal(page_num + 1)
    IN  [content EXCEPT
           !.full_text = @ \o <<"u3010","u7B2C">> \o number \o <<"u9875","u3011","\n">> \o page_text \o <<"\n">>,
           !.abstract =
               IF Contains(page_text_lower, <<"a","b","s","t","r","a","c","t">>) /\ @ = << >>
               THEN RegionAfter(page_text, <<"a","b","s","t","r","a","c","t">>)
               ELSE @,
           !.experiments =
               IF /\ ContainsAny(page_text_lower, PDF_EXPERIMENT_KEYWORDS)
                  /\ Len(@) < PDF_EXPERIMENTS_CAP
               THEN @ \o <<"u3010","u7B2C">> \o number \o <<"u9875","u5B9E","u9A8C","u5185","u5BB9","u3011","\n">>
                      \o Slice(page_text, 0, PDF_EXPERIMENTS_SLICE) \o <<"\n">>
               ELSE @,
           !.conclusion =
               IF Contains(page_text_lower, <<"c","o","n","c","l","u","s","i","o","n">>) /\ @ = << >>
               THEN RegionAfter(page_text, <<"c","o","n","c","l","u","s","i","o","n">>)
               ELSE @]

RECURSIVE ReadPdfLoop(_, _, _)
ReadPdfLoop(content, pages, page_num) ==
    IF page_num >= MinOf(PDF_MAX_PAGES, Len(pages)) THEN content
    ELSE ReadPdfLoop(ReadPdfPage(content, pages[page_num + 1], page_num),
                     pages, page_num + 1)

\* read_pdf up to its loop: the content with the home page, the first page
ReadPdfHome(pages) ==
    LET empty == [home_page |-> << >>, abstract |-> << >>, experiments |-> << >>,
                  conclusion |-> << >>, full_text |-> << >>]
    IN  IF Len(pages) >= 1
        THEN [empty EXCEPT
                !.home_page = Strip(pages[1]),
                !.full_text = <<"u3010","u9996","u9875","u3011","\n">> \o pages[1] \o <<"\n">>]
        ELSE empty

\* read_pdf, of a file PdfReader decodes: pages are the texts extract_text()
\* gives, "" for a page without text
read_pdf(pages) == ReadPdfLoop(ReadPdfHome(pages), pages, 0)

\* [u.strip() for u in units if u.strip()]
StrippedUnits(units) ==
    LET stripped == [i \in 1..Len(units) |-> Strip(units[i])]
    IN  SelectSeq(stripped, LAMBDA u : u # << >>)

\* list[i:j] for 0 <= i <= j
ListSlice(list, i, j) == SubSeq(list, i + 1, MinOf(j, Len(list)))

\* the first 0-based index i < limit whose unit contains the token, -1 when
\* there is none: the unit at which the abstract loops break
FirstUnitWith(units, token, limit) ==
    LET hits == {i \in 0..(Len(units) - 1) :
                    Contains(Lower(units[i + 1]), token) /\ i < limit}
    IN  IF hits = {} THEN -1 ELSE Min(hits)

TEXT_EXPERIMENT_KEYWORDS == {<<"e","x","p","e","r","i","m","e","n","t">>, <<"r","e","s","u","l","t">>}

\* the experiments length above which read_word and read_txt stop scanning
TEXT_EXPERIMENTS_CAP == 3000

\* the experiments loop of read_word and read_txt from the 0-based unit i:
\* a matching unit with more than `after` units behind it adds itself and
\* the `after` units that follow; the loop breaks once the cap is exceeded
RECURSIVE ExperimentsLoop(_, _, _, _)
ExperimentsLoop(experiments, units, i, after) ==
    IF i >= Len(units) THEN experiments
    ELSE IF /\ ContainsAny(Lower(units[i + 1]), TEXT_EXPERIMENT_KEYWORDS)
            /\ i < Len(units) - after
         THEN LET added == experiments
                            \o Join(ListSlice(units, i, i + after + 1), <<"\n">>)
              IN  IF Len(added) > TEXT_EXPERIMENTS_CAP THEN added
                  ELSE ExperimentsLoop(added, units, i + 1, after)
         ELSE ExperimentsLoop(experiments, units, i + 1, after)

WORD_HOME_PARAGRAPHS == 5

WORD_MAX_PARAGRAPHS == 50

\* the paragraphs that follow the abstract's (and must exist behind it)
WORD_ABSTRACT_AFTER == 3

WORD_EXPERIMENTS_AFTER == 5

\* read_word, of a file Document decodes: raw are the paragraphs' texts
read_word(raw) ==
    LET paragraphs == StrippedUnits(raw)
        i == FirstUnitWith(paragraphs, <<"a","b","s","t","r","a","c","t">>, Len(paragraphs) - WORD_ABSTRACT_AFTER)
    IN  [home_page |-> Join(Take(paragraphs, WORD_HOME_PARAGRAPHS), <<"\n">>),
         abstract |-> IF i = -1 THEN << >>
                      ELSE Join(ListSlice(paragraphs, i, i + WORD_ABSTRACT_AFTER + 1), <<"\n">>),
         experiments |-> ExperimentsLoop(<< >>, paragraphs, 0, WORD_EXPERIMENTS_AFTER),
         conclusion |-> << >>,
         full_text |-> Join(Take(paragraphs, WORD_MAX_PARAGRAPHS), <<"\n">>)]

TXT_HOME_LINES == 10

TXT_MAX_LINES == 100

TXT_ABSTRACT_AFTER == 10

TXT_EXPERIMENTS_AFTER == 20

\* read_txt, of a file that opens: raw are the file's lines
read_txt(raw) ==
    LET lines == StrippedUnits(raw)
        i == FirstUnitWith(lines, <<"a","b","s","t","r","a","c","t">>, Len(lines) - TXT_ABSTRACT_AFTER)
    IN  [home_page |-> Join(Take(lines, TXT_HOME_LINES), <<"\n">>),
         abstract |-> IF i = -1 THEN << >>
                      ELSE Join(ListSlice(lines, i, i + TXT_ABSTRACT_AFTER + 1), <<"\n">>),
         experiments |-> ExperimentsLoop(<< >>, lines, 0, TXT_EXPERIMENTS_AFTER),
         conclusion |-> << >>,
         full_text |-> Join(Take(lines, TXT_MAX_LINES), <<"\n">>)]

\* a reader's or the loader's error marker, {"error": message}
ErrorMarker(message) == [error |-> message]

\* "error" in content
IsError(content) == "error" \in DOMAIN content

\* the shortest full_text load_paper_content accepts
MIN_FULL_TEXT == 200

\* A file on disk: `exists` is os.path.exists(paper_path) when the file is
\* loaded, `decode_error` is the text of the exception the decoding library
\* raises (empty when it decodes), `units` are the decoded pages, paragraphs
\* or lines.
\* the reader's result, by file type
ReadFile(file, file_ext) ==
    IF file.decode_error # << >>
    THEN ErrorMarker((IF file_ext = <<".","p","d","f">> THEN <<"P","D","F","u8BFB","u53D6","u5931","u8D25","uFF1A">>
                      ELSE IF file_ext = <<".","t","x","t">> THEN <<"T","X","T","u8BFB","u53D6","u5931","u8D25","uFF1A">>
                      ELSE <<"W","o","r","d","u8BFB","u53D6","u5931","u8D25","uFF1A">>)
                     \o Slice(file.decode_error, 0, 200))
    ELSE IF file_ext = <<".","p","d","f">> THEN read_pdf(file.units)
    ELSE IF file_ext = <<".","t","x","t">> THEN read_txt(file.units)
    ELSE read_word(file.units)

\* a variant of CheckContent without the length check
CheckContentAnyLength(content) == content

\* the length check of load_paper_content on what the reader returned
CheckContent(content) ==
    IF IsError(content) THEN content
    ELSE IF Len(content.full_text) < MIN_FULL_TEXT
    THEN ErrorMarker(<<"u8BBA","u6587","u5185","u5BB9","u8FC7","u77ED","uFF08","<","2","0","0","u5B57","u7B26","uFF09","uFF0C","u65E0","u6CD5","u63D0","u53D6","u6709","u6548","u4FE1","u606F">>)
    ELSE content

load_paper_content(file, file_ext) ==
    IF ~file.exists
    THEN ErrorMarker(<<"u8BBA","u6587","u6587","u4EF6","u4E0D","u5B58","u5728","uFF08","u8DEF","u5F84","u9519","u8BEF","u6216","u5DF2","u5220","u9664","uFF09">>)
    ELSE IF file_ext \notin SUPPORTED_FORMATS
    THEN ErrorMarker(<<"u4E0D","u652F","u6301","u683C","u5F0F","uFF1A">> \o file_ext)
    ELSE CheckContent(ReadFile(file, file_ext))
\* ------------------------------------------------------------------------
\* The extractors of the heuristic candidate
\* ------------------------------------------------------------------------

\* the keyword lists written in the extractors
VALUE_KEYWORDS == {<<"s","o","l","v","e">>, <<"i","m","p","r","o","v","e">>, <<"e","n","a","b","l","e">>, <<"b","e","n","e","f","i","t">>}

DERIVATION_KEYWORDS == {<<"s","t","e","p">>, <<"a","s","s","u","m","e">>, <<"d","e","r","i","v","e">>, <<"o","b","t","a","i","n">>, <<"r","e","s","u","l","t"," ","i","n">>}

ADVANTAGE_KEYWORDS == {<<"a","d","v","a","n","t","a","g","e">>, <<"f","a","s","t","e","r">>, <<"l","o","w","e","r">>, <<"r","e","d","u","c","e">>, <<"e","f","f","i","c","i","e","n","t">>}

STEP_KEYWORDS == {<<"s","t","e","p">>, <<"t","r","a","i","n">>, <<"t","e","s","t">>, <<"l","o","a","d"," ","d","a","t","a">>}

ENVIRONMENT_KEYWORDS == {<<"p","y","t","h","o","n">>, <<"p","y","t","o","r","c","h">>, <<"t","e","n","s","o","r","f","l","o","w">>, <<"v","e","r","s","i","o","n">>}

HARDWARE_KEYWORDS == {<<"g","p","u">>, <<"t","p","u">>, <<"a","1","0","0">>, <<"v","1","0","0">>, <<"r","t","x">>, <<"m","e","m","o","r","y">>}

CODE_KEYWORDS == {<<"g","i","t","h","u","b">>, <<"o","p","e","n"," ","s","o","u","r","c","e">>, <<"r","e","p","o","s","i","t","o","r","y">>, <<"c","o","d","e">>}

METHOD_KEYWORDS == {<<"c","o","m","p","a","r","e">>, <<"b","a","s","e","l","i","n","e">>, <<"m","e","t","h","o","d">>, <<"s","o","t","a">>}

RESULT_KEYWORDS == {<<"h","i","g","h","e","r">>, <<"l","o","w","e","r">>, <<"b","e","t","t","e","r">>, <<"s","c","o","r","e">>}

\* re.split(r'[.!?]', text)
Sentences(text) == Split(text, {".", "!", "?"})

\* text.split("\n")
Lines(text) == Split(text, {"\n"})

\* [s.strip() for s in list]
StripAll(list) == [i \in 1..Len(list) |-> Strip(list[i])]

\* s[:n] + "..." if len(s) > n else s
Truncate(s, n) == IF Len(s) > n THEN Slice(s, 0, n) \o <<".",".",".">> ELSE s

\* f"{i + 1}. {s}" for the elements of list
Numbered(list) == [i \in 1..Len(list) |-> Decimal(i) \o <<"."," ">> \o list[i]]

\* the characters that mark an author or affiliation line
TITLE_FORBIDDEN == {<<"u2217">>[1], "@", "1", "2", "3", "4", "5"}

TITLE_EXTENSIONS == <<<<".","p","d","f">>, <<".","d","o","c","x">>, <<".","d","o","c">>, <<".","t","x","t">>>>

\* re.sub(r'\.(pdf|docx|doc|txt)', '', s): every occurrence removed, scanning
\* from the left, the alternatives tried in the order written
RECURSIVE RemoveExtensions(_)
RemoveExtensions(s) ==
    IF s = << >> THEN << >>
    ELSE LET hits == {k \in 1..Len(TITLE_EXTENSIONS) : StartsWith(s, TITLE_EXTENSIONS[k])}
         IN  IF hits = {} THEN <<Head(s)>> \o RemoveExtensions(Tail(s))
             ELSE RemoveExtensions(SliceFrom(s, Len(TITLE_EXTENSIONS[Min(hits)])))

\* a variant of extract_title that tries the abstract before the home page
extract_title_abstract_first(structured_content, paper_name) ==
    LET home_page == structured_content.home_page
        home_lines == SelectSeq(StripAll(Take(Lines(home_page), 3)), LAMBDA l : l # << >>)
        home_titles == SelectSeq(home_lines, LAMBDA line :
                          /\ Len(line) > 5
                          /\ \A i \in 1..Len(line) : line[i] \notin TITLE_FORBIDDEN
                          /\ (IsTitle(line) \/ IsUpper(line)))
        abstract == structured_content.abstract
        abstract_lines == SelectSeq(StripAll(Take(Lines(abstract), 2)), LAMBDA l : l # << >>)
        abstract_titles == SelectSeq(abstract_lines, LAMBDA line :
                              Len(line) > 5 /\ ~StartsWith(Lower(line), <<"a","b","s","t","r","a","c","t">>))
        filename_title == Strip(RemoveExtensions(BeforeFirst(paper_name, <<"uFF08">>)))
    IN  IF abstract # << >> /\ abstract_titles # << >> THEN Strip(abstract_titles[1])
        ELSE IF home_page # << >> /\ home_titles # << >> THEN Strip(home_titles[1])
        ELSE <<"u4ECE","u6587","u4EF6","u540D","u63D0","u53D6","uFF1A">> \o filename_title

extract_title(structured_content, paper_name) ==
    LET home_page == structured_content.home_page
        home_lines == SelectSeq(StripAll(Take(Lines(home_page), 3)), LAMBDA l : l # << >>)
        home_titles == SelectSeq(home_lines, LAMBDA line :
                          /\ Len(line) > 5
                          /\ \A i \in 1..Len(line) : line[i] \notin TITLE_FORBIDDEN
                          /\ (IsTitle(line) \/ IsUpper(line)))
        abstract == structured_content.abstract
        abstract_lines == SelectSeq(StripAll(Take(Lines(abstract), 2)), LAMBDA l : l # << >>)
        abstract_titles == SelectSeq(abstract_lines, LAMBDA line :
                              Len(line) > 5 /\ ~StartsWith(Lower(line), <<"a","b","s","t","r","a","c","t">>))
        filename_title == Strip(RemoveExtensions(BeforeFirst(paper_name, <<"uFF08">>)))
    IN  IF home_page # << >> /\ home_titles # << >> THEN Strip(home_titles[1])
        ELSE IF abstract # << >> /\ abstract_titles # << >> THEN Strip(abstract_titles[1])
        ELSE <<"u4ECE","u6587","u4EF6","u540D","u63D0","u53D6","uFF1A">> \o filename_title

\* x or placeholder
OrElse(x, placeholder) == IF x # << >> THEN x ELSE placeholder

extract_innovation(structured_content) ==
    LET full_text == structured_content.home_page \o <<"\n">> \o structured_content.abstract
        innovation_sentences ==
            StripAll(SelectSeq(Sentences(full_text), LAMBDA sentence :
                /\ ContainsAny(Lower(sentence), INNOVATION_KEYWORDS)
                /\ Len(sentence) > 10))
        propose_sentences ==
            SelectSeq(innovation_sentences, LAMBDA s :
                Contains(Lower(s), <<"p","r","o","p","o","s","e">>) \/ Contains(Lower(s), <<"n","o","v","e","l">>))
        value_sentences ==
            SelectSeq(innovation_sentences, LAMBDA s :
                ContainsAny(Lower(s), VALUE_KEYWORDS))
        core_innovation ==
            IF innovation_sentences = << >> THEN << >>
            ELSE IF propose_sentences # << >> THEN propose_sentences[1]
            ELSE innovation_sentences[1]
        innovation_value ==
            IF innovation_sentences = << >> THEN << >>
            ELSE IF value_sentences # << >> THEN value_sentences[1]
            ELSE <<"u672A","u660E","u786E","u5177","u4F53","u4EF7","u503C","uFF08","u9700","u53C2","u8003","u5168","u6587","uFF09">>
    IN  [core_innovation |-> OrElse(Truncate(core_innovation, 150), <<"u672A","u660E","u786E","uFF08","u9700","u53C2","u8003","u5168","u6587","u521B","u65B0","u90E8","u5206","uFF09">>),
         innovation_value |-> OrElse(Truncate(innovation_value, 100), <<"u672A","u660E","u786E","uFF08","u9700","u53C2","u8003","u5168","u6587","u4EF7","u503C","u90E8","u5206","uFF09">>)]

FORMULA_SYMBOLS == {"=", "$", <<"u2211">>[1], <<"u222B">>[1], <<"u2202">>[1], <<"u2208">>[1], <<"u2200">>[1], <<"u2203">>[1]}

extract_math(structured_content) ==
    LET full_text == structured_content.full_text
        sentences == Sentences(full_text)
        formula_sentences ==
            SelectSeq(StripAll(Lines(full_text)), LAMBDA line_stripped :
                /\ \E i \in 1..Len(line_stripped) : line_stripped[i] \in FORMULA_SYMBOLS
                /\ Len(line_stripped) > 3)
        derivation_sentences ==
            StripAll(SelectSeq(sentences, LAMBDA sentence :
                /\ ContainsAny(Lower(sentence),
                               DERIVATION_KEYWORDS)
                /\ Len(sentence) > 10))
        advantage_sentences ==
            StripAll(SelectSeq(sentences, LAMBDA sentence :
                /\ ContainsAny(Lower(sentence),
                               ADVANTAGE_KEYWORDS)
                /\ Len(sentence) > 10))
    IN  [key_formulas |-> IF formula_sentences # << >>
                          THEN Join(Take(formula_sentences, 3), <<"\n">>)
                          ELSE <<"u672A","u660E","u786E","uFF08","u9700","u53C2","u8003","u5168","u6587","u6570","u5B66","u90E8","u5206","uFF09">>,
         derivation_steps |-> IF derivation_sentences # << >>
                              THEN Join(Numbered(Take(derivation_sentences, 3)), <<"\n">>)
                              ELSE <<"u672A","u660E","u786E","uFF08","u9700","u53C2","u8003","u5168","u6587","u63A8","u5BFC","u90E8","u5206","uFF09">>,
         math_advantage |-> IF advantage_sentences # << >> THEN advantage_sentences[1]
                            ELSE <<"u672A","u660E","u786E","uFF08","u9700","u53C2","u8003","u5168","u6587","u4F18","u52BF","u90E8","u5206","uFF09">>]

\* the first stripped sentence that contains one of the keywords, else the
\* placeholder
FirstSentenceWith(sentences, keywords, placeholder) ==
    LET found == StripAll(SelectSeq(sentences, LAMBDA sentence :
                     ContainsAny(Lower(sentence), keywords)))
    IN  IF found # << >> THEN found[1] ELSE placeholder

DEFAULT_CORE_STEPS ==
    <<<<"1","."," ","u52A0","u8F7D","u6570","u636E","u96C6","u5E76","u6267","u884C","u9884","u5904","u7406","uFF08","u5982","u6E05","u6D17","u3001","u5F52","u4E00","u5316","uFF09">>,
      <<"2","."," ","u521D","u59CB","u5316","u6A21","u578B","u5E76","u914D","u7F6E","u8BAD","u7EC3","u53C2","u6570","uFF08","u5982","u5B66","u4E60","u7387","u3001","u8FED","u4EE3","u6B21","u6570","uFF09">>,
      <<"3","."," ","u6267","u884C","u6A21","u578B","u8BAD","u7EC3","u5E76","u76D1","u63A7","u8BAD","u7EC3","u8FC7","u7A0B">>,
      <<"4","."," ","u5728","u6D4B","u8BD5","u96C6","u4E0A","u9A8C","u8BC1","u6A21","u578B","u6027","u80FD">>>>

extract_reproduction(structured_content) ==
    LET full_text == structured_content.experiments \o <<"\n">> \o structured_content.full_text
        sentences == Sentences(full_text)
        dataset_sentences ==
            StripAll(SelectSeq(sentences, LAMBDA sentence :
                Contains(Lower(sentence), <<"d","a","t","a","s","e","t">>) /\ Len(sentence) > 10))
        step_sentences ==
            SelectSeq(StripAll(Lines(full_text)), LAMBDA s :
                ContainsAny(Lower(s), STEP_KEYWORDS))
        numbered == Take(step_sentences, 4)
        core_steps ==
            IF Len(step_sentences) >= 3
            THEN [i \in 1..Len(numbered) |->
                     Decimal(i) \o <<"."," ">> \o Slice(numbered[i], 0, 80) \o <<".",".",".">>]
            ELSE DEFAULT_CORE_STEPS
    IN  [data_prep |-> IF dataset_sentences # << >> THEN dataset_sentences[1]
                       ELSE <<"u672A","u516C","u5F00","uFF08","u9700","u53C2","u8003","u5168","u6587","u6570","u636E","u96C6","u90E8","u5206","uFF09">>,
         env_config |-> FirstSentenceWith(sentences,
                            ENVIRONMENT_KEYWORDS,
                            <<"u672A","u516C","u5F00","uFF08","u9700","u53C2","u8003","u5168","u6587","u73AF","u5883","u90E8","u5206","uFF09">>),
         hardware_req |-> FirstSentenceWith(sentences,
                            HARDWARE_KEYWORDS,
                            <<"u672A","u516C","u5F00","uFF08","u9700","u53C2","u8003","u5168","u6587","u786C","u4EF6","u90E8","u5206","uFF09">>),
         core_steps |-> Join(core_steps, <<"\n">>),
         code_info |-> FirstSentenceWith(sentences,
                            CODE_KEYWORDS,
                            <<"u672A","u5F00","u6E90","uFF08","u9700","u53C2","u8003","u5168","u6587","u4EE3","u7801","u90E8","u5206","uFF09">>)]

\* s.split(",")[0].strip(): what compared_methods keeps of a sentence
MethodName(s) == Strip(BeforeFirst(s, <<",">>))

extract_comparison(structured_content) ==
    LET conclusion == structured_content.conclusion
        full_text == structured_content.experiments \o <<"\n">> \o conclusion
        sentences == Sentences(full_text)
        method_sentences ==
            StripAll(SelectSeq(sentences, LAMBDA sentence :
                /\ ContainsAny(Lower(sentence), METHOD_KEYWORDS)
                /\ \E i \in 1..Len(sentence) : sentence[i] \in UPPERCASE
                /\ Len(sentence) > 10))
        methods == Take(method_sentences, 3)
        result_sentences ==
            StripAll(SelectSeq(sentences, LAMBDA sentence :
                \/ \E i \in 1..Len(sentence) : sentence[i] = "%"
                \/ ContainsAny(Lower(sentence), RESULT_KEYWORDS)))
        conclusion_sentences ==
            SelectSeq(StripAll(Lines(full_text)), LAMBDA s :
                ContainsAny(Lower(s), CONCLUSION_KEYWORDS))
        truncated == Truncate(conclusion, 100)
    IN  [compared_methods |->
             IF method_sentences # << >>
             THEN Join([i \in 1..Len(methods) |-> MethodName(methods[i])], <<","," ">>)
             ELSE <<"u672A","u516C","u5F00","uFF08","u9700","u53C2","u8003","u5168","u6587","u5BF9","u6BD4","u90E8","u5206","uFF09">>,
         evaluation_metrics |-> FirstSentenceWith(sentences, METRIC_KEYWORDS,
                                    <<"u672A","u660E","u786E","uFF08","u9700","u53C2","u8003","u5168","u6587","u6307","u6807","u90E8","u5206","uFF09">>),
         key_results |-> IF result_sentences # << >>
                         THEN Join(Take(result_sentences, 2), <<"\n">>)
                         ELSE <<"u672A","u660E","u786E","uFF08","u9700","u53C2","u8003","u5168","u6587","u7ED3","u679C","u90E8","u5206","uFF09">>,
         experiment_conclusion |->
             IF truncated # << >> THEN truncated
             ELSE IF conclusion_sentences # << >>
             THEN Slice(conclusion_sentences[1], 0, 100) \o <<".",".",".">>
             ELSE <<"u672A","u660E","u786E","uFF08","u9700","u53C2","u8003","u5168","u6587","u7ED3","u8BBA","u90E8","u5206","uFF09">>]

\* a variant of generate_smart_fallback that gives a YOLO related paper a
\* pseudo-code of its own
generate_fallback_with_code(structured_content, paper_name, is_yolo) ==
    [paper_title |-> extract_title(structured_content, paper_name),
     is_yolo_related |-> IF is_yolo THEN <<"u662F">> ELSE <<"u5426">>,
     innovation_point |->
         [core_innovation |-> extract_innovation(structured_content).core_innovation,
          innovation_value |-> extract_innovation(structured_content).innovation_value,
          pseudo_code |-> IF is_yolo THEN <<"d","e","f"," ","d","e","t","e","c","t","(","i","m","a","g","e",")",":"," ",".",".",".">> ELSE PSEUDO_CODE_SENTINEL],
     math_derivation |-> extract_math(structured_content),
     reproduction_steps |-> extract_reproduction(structured_content),
     comparison_experiments |-> extract_comparison(structured_content)]

generate_smart_fallback(structured_content, paper_name, is_yolo) ==
    [paper_title |-> extract_title(structured_content, paper_name),
     is_yolo_related |-> IF is_yolo THEN <<"u662F">> ELSE <<"u5426">>,
     innovation_point |->
         [core_innovation |-> extract_innovation(structured_content).core_innovation,
          innovation_value |-> extract_innovation(structured_content).innovation_value,
          pseudo_code |-> PSEUDO_CODE_SENTINEL],
     math_derivation |-> extract_math(structured_content),
     reproduction_steps |-> extract_reproduction(structured_content),
     comparison_experiments |-> extract_comparison(structured_content)]

\* ------------------------------------------------------------------------
\* The classifier
\* ------------------------------------------------------------------------

YOLO_KEYWORDS ==
    {<<"y","o","l","o","v","1","1">>, <<"y","o","l","o","v","1","0">>, <<"y","o","l","o","v","9">>, <<"y","o","l","o","v","8">>, <<"y","o","l","o"," ","v","1","1">>, <<"y","o","l","o"," ","v","1","0">>, <<"y","o","l","o">>,
     <<"o","b","j","e","c","t"," ","d","e","t","e","c","t","i","o","n">>, <<"t","a","r","g","e","t"," ","d","e","t","e","c","t","i","o","n">>, <<"b","o","u","n","d","i","n","g"," ","b","o","x">>, <<"m","A","P">>, <<"F","P","S">>}

NON_YOLO_KEYWORDS ==
    {<<"m","a","m","b","a">>, <<"d","i","f","f","u","s","i","o","n">>, <<"t","i","m","e"," ","s","e","r","i","e","s">>, <<"n","l","p">>, <<"l","a","n","g","u","a","g","e">>, <<"t","r","a","n","s","f","o","r","m","e","r">>,
     <<"b","e","r","t">>, <<"g","p","t">>, <<"l","l","m">>}

\* a variant of is_yolo_related_paper that tries the YOLO keywords first
is_yolo_positive_first(structured_content, paper_name) ==
    LET full_text == Lower(structured_content.full_text)
        paper_name_lower == Lower(paper_name)
    IN  IF \/ ContainsAny(full_text, YOLO_KEYWORDS)
           \/ ContainsAny(paper_name_lower, YOLO_KEYWORDS)
        THEN TRUE
        ELSE FALSE

is_yolo_related_paper(structured_content, paper_name) ==
    LET full_text == Lower(structured_content.full_text)
        paper_name_lower == Lower(paper_name)
    IN  IF ContainsAny(full_text, NON_YOLO_KEYWORDS) THEN FALSE
        ELSE IF \/ ContainsAny(full_text, YOLO_KEYWORDS)
                \/ ContainsAny(paper_name_lower, YOLO_KEYWORDS)
        THEN TRUE
        ELSE FALSE

\* ------------------------------------------------------------------------
\* JSON values and the answers of the model client
\* ------------------------------------------------------------------------

\* A decoded JSON value carries its Python type; a dict's items are a record.
JStr(s) == [type |-> "str", str |-> s]

JNum(n) == [type |-> "num", num |-> n]

JList(list) == [type |-> "list", list |-> list]

JDict(items) == [type |-> "dict", items |-> items]

\* key in value, for a dict
HasKey(value, key) == value.type = "dict" /\ key \in DOMAIN value.items

\* the outcome of a step that may raise: the exception's class, "" for none
Raised(exc) == [exc |-> exc]

Returned(value) == [exc |-> "", value |-> value]

\* value[key] for a string key: a KeyError of a dict without the key, a
\* TypeError of any other value
Subscript(value, key) ==
    IF value.type # "dict" THEN Raised("TypeError")
    ELSE IF key \notin DOMAIN value.items THEN Raised("KeyError")
    ELSE Returned(value.items[key])

\* bool(value)
Truthy(value) ==
    CASE value.type = "dict" -> DOMAIN value.items # {}
      [] value.type = "list" -> value.list # << >>
      [] value.type = "str" -> value.str # << >>
      [] value.type = "num" -> value.num # 0

\* the heuristic candidate as the dict generate_smart_fallback returns
CandidateJson(candidate) ==
    LET Inner(fields) == JDict([k \in DOMAIN fields |-> JStr(fields[k])])
    IN  JDict([k \in DOMAIN candidate |->
                  IF k \in {"paper_title", "is_yolo_related"}
                  THEN JStr(candidate[k])
                  ELSE Inner(candidate[k])])

\* The text the model client returns, after .strip(): an opening "```json"
\* fence or none, a body, a closing "```" fence or none. The body is either
\* the text of a JSON document (json holds its value) or text no part of
\* which is JSON (garbage); cut tells that its last three characters are
\* gone.
ModelText(open, body, close) == [open |-> open, body |-> body, close |-> close, cut |-> FALSE]

\* llm_result[7:-3].strip() when llm_result.startswith("```json"): the fence
\* goes, and with it the last three characters, the closing fence's if there
\* is one and the body's if not
StripFence(text) ==
    IF text.open
    THEN [text EXCEPT !.open = FALSE, !.close = FALSE, !.cut = ~text.close]
    ELSE text

\* json.loads(text): the body's value when the text is the whole body of a
\* JSON document, a JSONDecodeError otherwise
JsonLoads(text) ==
    IF text.body.garbage \/ text.open \/ text.close \/ text.cut
    THEN Raised("JSONDecodeError")
    ELSE Returned(text.body.json)

\* ------------------------------------------------------------------------
\* The selection between the model candidate and the heuristic candidate
\* ------------------------------------------------------------------------

\* the check of one field in batch_analyze_papers:
\* if not result_json.get(field, "").strip(): raise ValueError
BatchFieldCheck(result_json, field) ==
    IF result_json.type # "dict" THEN "AttributeError"
    ELSE LET value == IF field \in DOMAIN result_json.items
                      THEN result_json.items[field] ELSE JStr(<< >>)
         IN  IF value.type # "str" THEN "AttributeError"
             ELSE IF Strip(value.str) = << >> THEN "ValueError"
             ELSE ""

\* a variant of BatchPseudoCode that keeps the answer's pseudo-code
BatchPseudoCodeKept(result_json, is_yolo) == Returned(result_json)

\* the pseudo-code rule of batch_analyze_papers on the decoded answer
BatchPseudoCode(result_json, is_yolo) ==
    IF is_yolo THEN Returned(result_json)
    ELSE LET point == Subscript(result_json, "innovation_point")
         IN  IF point.exc # "" THEN point
             ELSE LET code == Subscript(point.value, "pseudo_code")
                  IN  IF code.exc # "" THEN code
                      ELSE IF code.value.type = "str" /\ code.value.str = PSEUDO_CODE_SENTINEL
                      THEN Returned(result_json)
                      ELSE Returned([result_json EXCEPT
                               !.items.innovation_point.items.pseudo_code =
                                   JStr(PSEUDO_CODE_SENTINEL)])

\* the body of the inner try of batch_analyze_papers: decode, force the
\* pseudo-code of a paper that is not YOLO related, check the two fields
BatchValidate(text, is_yolo) ==
    LET loaded == JsonLoads(text)
    IN  IF loaded.exc # "" THEN loaded
        ELSE LET forced == BatchPseudoCode(loaded.value, is_yolo)
             IN  IF forced.exc # "" THEN forced
                 ELSE LET title == BatchFieldCheck(forced.value, "paper_title")
                          related == BatchFieldCheck(forced.value, "is_yolo_related")
                      IN  IF title # "" THEN Raised(title)
                          ELSE IF related # "" THEN Raised(related)
                          ELSE forced

\* except (json.JSONDecodeError, ValueError)
BATCH_INNER_CAUGHT == {"JSONDecodeError", "ValueError"}

\* a variant of BatchOuterCaught without the outer handler
BatchOuterMissing(exc) == FALSE

\* except Exception: every exception the steps above raise
BatchOuterCaught(exc) == TRUE

\* a variant of BatchSelect whose inner handler keeps the fields of a decoded
\* answer and takes only paper_title from the heuristic candidate
BatchSelectMerged(fallback, is_yolo, answer) ==
    LET loaded == JsonLoads(StripFence(answer.text))
        checked == BatchValidate(StripFence(answer.text), is_yolo)
    IN  IF answer.raises \/ loaded.exc # "" \/ loaded.value.type # "dict"
        THEN [result_json |-> fallback, assigned |-> ~answer.raises, escapes |-> ""]
        ELSE IF checked.exc = ""
        THEN [result_json |-> checked.value, assigned |-> TRUE, escapes |-> ""]
        ELSE [result_json |->
                  JDict([k \in DOMAIN fallback.items |->
                            IF k \in DOMAIN loaded.value.items /\ k # "paper_title"
                            THEN loaded.value.items[k]
                            ELSE fallback.items[k]]),
              assigned |-> TRUE, escapes |-> ""]

\* Step 4 of the loop of batch_analyze_papers for a loaded paper, on what
\* the model client does (it raises, or returns a text) and with fallback the
\* heuristic candidate: result_json, whether llm_result was assigned in this
\* pass, and the exception that leaves the pass, "" for none.
BatchSelect(fallback, is_yolo, answer) ==
    LET checked == BatchValidate(StripFence(answer.text), is_yolo)
        exc == IF answer.raises THEN "Exception" ELSE checked.exc
    IN  IF exc = ""
        THEN [result_json |-> checked.value, assigned |-> TRUE, escapes |-> ""]
        ELSE IF exc \in BATCH_INNER_CAUGHT \/ BatchOuterCaught(exc)
        THEN [result_json |-> fallback, assigned |-> ~answer.raises, escapes |-> ""]
        ELSE [result_json |-> fallback, assigned |-> ~answer.raises, escapes |-> exc]

SOURCE_LLM == <<"L","L","M">>

SOURCE_FALLBACK == <<"u667A","u80FD","u63D0","u53D6","uFF08","u65E0","L","L","M","uFF09">>

\* "LLM" if "llm_result" in locals() and result_json else the fallback's tag
BatchExtractionSource(llm_result_in_locals, result_json) ==
    IF llm_result_in_locals /\ Truthy(result_json) THEN SOURCE_LLM ELSE SOURCE_FALLBACK

\* result_json["innovation_point"]["pseudo_code"] = sentinel, the item
\* assignment of analyze_single_paper
SinglePseudoCode(result_json) ==
    LET point == Subscript(result_json, "innovation_point")
    IN  IF point.exc # "" THEN point
        ELSE IF point.value.type # "dict" THEN Raised("TypeError")
        ELSE Returned([result_json EXCEPT
                 !.items.innovation_point.items =
                     [k \in DOMAIN @ \cup {"pseudo_code"} |->
                         IF k = "pseudo_code" THEN JStr(PSEUDO_CODE_SENTINEL) ELSE @[k]]])

\* step 3 of analyze_single_paper, with fallback the heuristic candidate:
\* result_json and extraction_source
SingleSelect(fallback, is_yolo, answer) ==
    LET loaded == JsonLoads(StripFence(answer.text))
        forced == IF loaded.exc # "" THEN loaded
                  ELSE IF is_yolo THEN loaded
                  ELSE SinglePseudoCode(loaded.value)
    IN  IF answer.raises \/ forced.exc # ""
        THEN [result_json |-> fallback, extraction_source |-> SOURCE_FALLBACK]
        ELSE [result_json |-> forced.value, extraction_source |-> SOURCE_LLM]

\* ------------------------------------------------------------------------
\* The DOCS folder
\* ------------------------------------------------------------------------

\* "x" * n, text without a keyword, a separator or a space
Filler(n) == [i \in 1..n |-> "x"]

\* os.path.splitext(filename)[1]: from the last dot on, "" when there is no
\* dot or only dots before it
SplitExt(filename) ==
    LET dots == {i \in 1..Len(filename) : filename[i] = "."}
        last == CHOOSE i \in dots : \A j \in dots : j <= i
    IN  IF dots = {} THEN << >>
        ELSE IF \A j \in 1..(last - 1) : filename[j] = "." THEN << >>
        ELSE SliceFrom(filename, last - 1)

\* the files a DOCS folder of the model may hold: a PDF about YOLO, a Word
\* file of exactly 200 characters about another topic, a text file of 199
\* characters, a PDF that does not decode and a file of no supported format
FILES ==
    <<[filename |-> <<"y","o","l","o","_","h","e","a","d",".","p","d","f">>, exists |-> TRUE, decode_error |-> << >>,
       units |-> <<<<"A","n","c","h","o","r"," ","F","r","e","e"," ","H","e","a","d","\n","A","b","s","t","r","a","c","t"," ","W","e"," ","p","r","o","p","o","s","e"," ","a"," ","n","o","v","e","l"," ","Y","O","L","O"," ","h","e","a","d","."," ","I","t"," ","i","m","p","r","o","v","e","s"," ","m","A","P",".","\n","\n">>
                   \o <<"R","e","s","u","l","t","s",":"," ","o","u","r","s"," ","i","s"," ","b","e","t","t","e","r","."," ",","," ","W","e"," ","c","o","m","p","a","r","e"," ","w","i","t","h"," ","t","h","e"," ","B","a","s","e","l","i","n","e",","," ","o","n"," ","C","O","C","O","."," ">>
                   \o Filler(20)>>],
      [filename |-> <<"s","u","r","v","e","y",".","d","o","c","x">>, exists |-> TRUE, decode_error |-> << >>,
       units |-> <<<<"A"," ","S","u","r","v","e","y"," ","O","f"," ","T","r","a","n","s","f","o","r","m","e","r"," ","M","o","d","e","l","s">>, <<"I","t"," ","c","o","v","e","r","s"," ","Y","O","L","O"," ","t","o","o",".">>, Filler(149)>>],
      [filename |-> <<"s","h","o","r","t",".","t","x","t">>, exists |-> TRUE, decode_error |-> << >>,
       units |-> <<<<"Y","O","L","O"," ","i","n"," ","b","r","i","e","f">>, Filler(185)>>],
      [filename |-> <<"b","r","o","k","e","n",".","P","D","F">>, exists |-> TRUE, decode_error |-> <<"E","O","F"," ","m","a","r","k","e","r"," ","n","o","t"," ","f","o","u","n","d">>,
       units |-> << >>],
      [filename |-> <<"n","o","t","e","s",".","m","d">>, exists |-> TRUE, decode_error |-> << >>,
       units |-> <<<<"t","o"," ","d","o">>>>]>>

\* the most files in the DOCS folder
MaxFiles == 3

\* the folders of the model: up to MaxFiles different files of FILES, in the
\* order os.listdir gives them
Listings ==
    {l \in UNION {[1..k -> DOMAIN FILES] : k \in 0..MaxFiles} :
        \A i, j \in 1..Len(l) : i # j => l[i] # l[j]}

\* os.path.splitext(filename)[1].lower()
FileExtOf(filename) == Lower(SplitExt(filename))

\* the paper_name get_all_papers gives a file
PaperNameOf(filename) ==
    filename \o <<"uFF08">>
        \o (IF FileExtOf(filename) = <<".","p","d","f">> THEN <<"P","D","F","uFF08","u4F18","u5148","u5206","u6790","uFF09">> ELSE <<"u5176","u4ED6","u683C","u5F0F">>) \o <<"uFF09">>

\* the lowercased extensions and the paper names of the files of FILES
FileExt == [f \in DOMAIN FILES |-> FileExtOf(FILES[f].filename)]

PaperName == [f \in DOMAIN FILES |-> PaperNameOf(FILES[f].filename)]

\* get_all_papers: the PaperRecords of the folder's files of a supported
\* format, or one record of status "empty"; paper_path is the file's place
\* in FILES
get_all_papers(folder_exists, files) ==
    LET supported == SelectSeq(files, LAMBDA f : FileExt[f] \in SUPPORTED_FORMATS)
    IN  IF ~folder_exists
        THEN <<[paper_name |-> <<"u63D0","u793A","uFF1A","D","O","C","S","u6587","u4EF6","u5939","u5DF2","u521B","u5EFA","uFF0C","u8BF7","u5C06","u8BBA","u6587","u653E","u5165","u540E","u91CD","u542F">>,
                paper_path |-> 0, status |-> "empty"]>>
        ELSE IF supported = << >>
        THEN <<[paper_name |-> <<"D","O","C","S","u6587","u4EF6","u5939","u65E0","u652F","u6301","u683C","u5F0F","u8BBA","u6587","uFF08","u4EC5","u652F","u6301",".","p","d","f","/",".","d","o","c","x","/",".","d","o","c","/",".","t","x","t","uFF09">>,
                paper_path |-> 0, status |-> "empty"]>>
        ELSE [i \in 1..Len(supported) |->
                 [paper_name |-> PaperName[supported[i]],
                  paper_path |-> supported[i],
                  status |-> "valid",
                  file_ext |-> FileExt[supported[i]],
                  index |-> i]]

\* The steps of an analysis on a file of FILES, each computed once per file:
\* the reader's result,
READ == [f \in DOMAIN FILES |-> ReadFile(FILES[f], FileExt[f])]

\* load_paper_content(paper_path, file_ext),
LOADED == [f \in DOMAIN FILES |-> load_paper_content(FILES[f], FileExt[f])]

\* step 2 of an analysis, which a paper that did not load never reaches
ClassifyLoaded(structured_content, paper_name) ==
    IF IsError(structured_content) THEN FALSE
    ELSE is_yolo_related_paper(structured_content, paper_name)

\* is_yolo_related_paper(structured_content, paper_name) of a loaded paper,
CLASSIFIED == [f \in DOMAIN FILES |-> ClassifyLoaded(LOADED[f], PaperName[f])]

\* the heuristic candidate of a loaded paper, as JSON
FallbackLoaded(structured_content, paper_name, is_yolo) ==
    IF IsError(structured_content) THEN JDict(<< >>)
    ELSE CandidateJson(generate_smart_fallback(structured_content, paper_name, is_yolo))

\* and generate_smart_fallback(structured_content, paper_name, is_yolo)
FALLBACK == [f \in DOMAIN FILES |-> FallbackLoaded(LOADED[f], PaperName[f], CLASSIFIED[f])]

\* ------------------------------------------------------------------------
\* The answers of the model client
\* ------------------------------------------------------------------------

JsonBody(json) == [garbage |-> FALSE, json |-> json]

\* prose around or instead of the JSON document
GarbageBody == [garbage |-> TRUE, json |-> JList(<< >>)]

Raises == [raises |-> TRUE, text |-> ModelText(FALSE, GarbageBody, FALSE)]

Answers(text) == [raises |-> FALSE, text |-> text]

\* a candidate of the expected nested structure
FullCandidate(title, related, pseudo_code) ==
    [paper_title |-> JStr(title),
     is_yolo_related |-> JStr(related),
     innovation_point |-> JDict([core_innovation |-> JStr(<<"a","n"," ","a","n","c","h","o","r","-","f","r","e","e"," ","h","e","a","d">>),
                                 innovation_value |-> JStr(<<"f","a","s","t","e","r"," ","d","e","t","e","c","t","i","o","n">>),
                                 pseudo_code |-> JStr(pseudo_code)]),
     math_derivation |-> JDict([key_formulas |-> JStr(<<"$","L"," ","="," ","a"," ","+"," ","b","$">>),
                                derivation_steps |-> JStr(<<"1","."," ","a","s","s","u","m","e"," ","2","."," ","d","e","r","i","v","e">>),
                                math_advantage |-> JStr(<<"l","o","w","e","r"," ","c","o","s","t">>)]),
     reproduction_steps |-> JDict([data_prep |-> JStr(<<"C","O","C","O">>),
                                   env_config |-> JStr(<<"P","y","t","h","o","n","3",".","9">>),
                                   hardware_req |-> JStr(<<"A","1","0","0">>),
                                   core_steps |-> JStr(<<"1","."," ","l","o","a","d"," ","2","."," ","t","r","a","i","n"," ","3","."," ","t","e","s","t">>),
                                   code_info |-> JStr(<<"u672A","u5F00","u6E90">>)]),
     comparison_experiments |-> JDict([compared_methods |-> JStr(<<"R","e","s","N","e","t","-","5","0">>),
                                       evaluation_metrics |-> JStr(<<"m","A","P">>),
                                       key_results |-> JStr(<<"9","2",".","5","%"," ",">"," ","8","9",".","3","%">>),
                                       experiment_conclusion |-> JStr(<<"b","e","t","t","e","r">>)])]

MODEL_CODE == <<"c","l","a","s","s"," ","H","e","a","d","(","n","n",".","M","o","d","u","l","e",")",":"," ",".",".",".">>

\* items without the keys of drop
Without(items, drop) == [k \in DOMAIN items \ drop |-> items[k]]

GoodItems == FullCandidate(<<"A","n","c","h","o","r"," ","F","r","e","e"," ","H","e","a","d">>, <<"u662F">>, MODEL_CODE)

\* what the model client may do on a call
ANSWERS ==
    <<Raises,
      Answers(ModelText(FALSE, GarbageBody, FALSE)),
      Answers(ModelText(TRUE, JsonBody(JDict(GoodItems)), TRUE)),
      Answers(ModelText(FALSE, JsonBody(JDict(
          FullCandidate(<<"A"," ","S","u","r","v","e","y">>, <<"u5426">>, PSEUDO_CODE_SENTINEL))), FALSE)),
      Answers(ModelText(TRUE, JsonBody(JDict(
          FullCandidate(<<" "," ">>, <<"u662F">>, MODEL_CODE))), TRUE)),
      Answers(ModelText(FALSE, JsonBody(JDict(
          Without(GoodItems, {"innovation_point", "math_derivation"}))), FALSE)),
      Answers(ModelText(FALSE, JsonBody(JList(<<JStr(<<"A","n","c","h","o","r"," ","F","r","e","e"," ","H","e","a","d">>)>>)), FALSE)),
      Answers(ModelText(FALSE, JsonBody(JDict(
          [GoodItems EXCEPT !.paper_title = JNum(7)])), FALSE)),
      Answers(ModelText(TRUE, JsonBody(JDict(GoodItems)), FALSE)),
      Answers(ModelText(FALSE, JsonBody(JDict(
          [GoodItems EXCEPT !.innovation_point =
              JDict(Without(@.items, {"pseudo_code"}))])), FALSE)),
      Answers(ModelText(FALSE, JsonBody(JDict(
          [GoodItems EXCEPT !.is_yolo_related = JStr(<< >>)])), FALSE))>>


\* ------------------------------------------------------------------------
\* A reader at work on one file, pass by pass of its loops
\* ------------------------------------------------------------------------

VARIABLES
    reader_kind,            \* the reader: "pdf", "word" or "txt"
    reader_units,           \* the decoded pages, paragraphs or lines of the file,
                            \* as places in READER_TEXTS
    reader_pc,              \* "file" before the reader's first line, "pages" in
                            \* read_pdf's loop, "abstract" and "experiments" in the
                            \* loops of read_word and read_txt, "done" at the return
    reader_i,               \* the loop's 0-based index
    reader_content          \* content

reader_vars == <<reader_kind, reader_units, reader_pc, reader_i, reader_content>>

\* no reader is at work
ReaderIdle ==
    /\ reader_kind = "idle"
    /\ reader_units = << >>
    /\ reader_pc = "idle"
    /\ reader_i = 0
    /\ reader_content = [error |-> << >>]
\* ------------------------------------------------------------------------
\* The analyses as a state machine
\* ------------------------------------------------------------------------

VARIABLES
    dir_exists,             \* whether the DOCS folder exists
    dir_files,              \* the folder's files, as places in FILES
    pc,                     \* "menu", "batch" inside batch_analyze_papers' loop,
                            \* "returned" when an analysis has returned
    valid_papers,           \* batch_analyze_papers: the valid PaperRecords
    total,                  \* batch_analyze_papers: len(papers)
    idx,                    \* batch_analyze_papers: the papers the loop has passed
    analyzed,               \* batch_analyze_papers: analyzed
    errors,                 \* batch_analyze_papers: errors
    llm_result_in_locals,   \* batch_analyze_papers: "llm_result" in locals()
    batch_return,           \* what batch_analyze_papers returned
    single_return,          \* what analyze_single_paper returned
    answered,               \* per entry of analyzed, what the model client did on
                            \* that paper's call, as a place in ANSWERS
    single_call             \* the paper_path and the answer of analyze_single_paper

VARIABLES
    paper_file,             \* a file on disk
    paper_stage,            \* how far the file has come: "file", "loaded",
                            \* "classified", "extracted"
    paper_content,          \* load_paper_content of the file
    paper_is_yolo,          \* is_yolo_related_paper of the loaded content
    paper_candidate         \* generate_smart_fallback of the classified content

program_vars == <<dir_exists, dir_files, pc, valid_papers, total, idx, analyzed, errors,
                  llm_result_in_locals, batch_return, single_return, answered, single_call>>

paper_vars == <<paper_file, paper_stage, paper_content, paper_is_yolo, paper_candidate>>

NoBatchReturn == [overall_status |-> "none"]

NoSingleReturn == [status |-> "none"]

NoSingleCall == [paper_path |-> 0, answer |-> 0]

NoFile == [filename |-> << >>, exists |-> FALSE, decode_error |-> << >>, units |-> << >>]

NoContent == [error |-> << >>]

NoCandidate == [paper_title |-> << >>]

\* no file is under way
PaperIdle ==
    /\ paper_file = NoFile
    /\ paper_stage = "idle"
    /\ paper_content = NoContent
    /\ paper_is_yolo = FALSE
    /\ paper_candidate = NoCandidate

\* no analysis is under way
ProgramIdle ==
    /\ pc = "menu"
    /\ valid_papers = << >>
    /\ total = 0
    /\ idx = 0
    /\ analyzed = << >>
    /\ errors = << >>
    /\ llm_result_in_locals = FALSE
    /\ batch_return = NoBatchReturn
    /\ single_return = NoSingleReturn
    /\ answered = << >>
    /\ single_call = NoSingleCall

ProgramInit ==
    /\ dir_exists \in BOOLEAN
    /\ dir_files \in Listings
    /\ (~dir_exists => dir_files = << >>)
    /\ ProgramIdle

\* the return of batch_analyze_papers that reports the call's failure
BatchFailure(message) ==
    [overall_status |-> "error",
     total_papers |-> 0,
     analyzed_papers |-> << >>,
     error_log |-> <<message>>]

\* batch_analyze_papers up to its loop: the papers are listed (a missing
\* folder is created); without a valid paper the call returns at once
BatchStart ==
    /\ pc = "menu"
    /\ \E papers \in {get_all_papers(dir_exists, dir_files)} :
       \E valid \in {SelectSeq(papers, LAMBDA p : p.status = "valid")} :
           /\ total' = Len(papers)
           /\ valid_papers' = valid
           /\ IF valid = << >>
              THEN /\ batch_return' = BatchFailure(papers[1].paper_name)
                   /\ pc' = "returned"
              ELSE /\ batch_return' = NoBatchReturn
                   /\ pc' = "batch"
    /\ dir_exists' = TRUE
    /\ idx' = 0
    /\ analyzed' = << >>
    /\ errors' = << >>
    /\ llm_result_in_locals' = FALSE
    /\ answered' = << >>
    /\ single_return' = NoSingleReturn
    /\ single_call' = NoSingleCall
    /\ UNCHANGED dir_files
    /\ UNCHANGED paper_vars
    /\ UNCHANGED reader_vars

\* a variant of ContinueAt that leaves the loop
BreakAt(i, n) == n

\* continue, in the loop over n papers that has passed i of them: the loop
\* goes on with the next paper
ContinueAt(i, n) == i + 1

\* the entry of errors: the paper's name, a full-width colon, the error
ErrorLogEntry(paper_name, structured_content) ==
    paper_name \o <<"uFF1A">> \o structured_content.error

\* the entry the loop appends to analyzed
AnalyzedEntry(paper, is_yolo, result_json, in_locals) ==
    [paper_name |-> paper.paper_name,
     paper_path |-> paper.paper_path,
     is_yolo_related |-> is_yolo,
     analysis_result |-> result_json,
     extraction_source |-> BatchExtractionSource(in_locals, result_json)]

\* one pass of the loop of batch_analyze_papers: the paper is loaded; a
\* paper that does not load is logged and the loop continues; a loaded one
\* is classified, the model is called, and the selected result is appended.
\* An exception that leaves the pass ends the call in its outermost handler.
BatchPaper ==
    /\ pc = "batch"
    /\ idx < Len(valid_papers)
    /\ \E paper \in {valid_papers[idx + 1]} :
       \E structured_content \in {LOADED[paper.paper_path]} :
          IF IsError(structured_content)
          THEN /\ errors' = Append(errors, ErrorLogEntry(paper.paper_name, structured_content))
               /\ idx' = ContinueAt(idx, Len(valid_papers))
               /\ UNCHANGED <<analyzed, answered, llm_result_in_locals, pc, batch_return>>
          ELSE \E is_yolo \in {CLASSIFIED[paper.paper_path]}, a \in DOMAIN ANSWERS :
               \E selected \in {BatchSelect(FALLBACK[paper.paper_path], is_yolo, ANSWERS[a])} :
               \E in_locals \in {llm_result_in_locals \/ selected.assigned} :
                  /\ llm_result_in_locals' = in_locals
                  /\ IF selected.escapes # ""
                     THEN /\ batch_return' = BatchFailure(<<"u6279","u91CF","u5206","u6790","u5931","u8D25","uFF1A">>)
                          /\ pc' = "returned"
                          /\ UNCHANGED <<analyzed, answered, errors, idx>>
                     ELSE /\ analyzed' = Append(analyzed,
                                 AnalyzedEntry(paper, is_yolo, selected.result_json, in_locals))
                          /\ answered' = Append(answered, a)
                          /\ idx' = idx + 1
                          /\ UNCHANGED <<errors, pc, batch_return>>
    /\ UNCHANGED <<dir_exists, dir_files, valid_papers, total, single_return, single_call>>
    /\ UNCHANGED paper_vars
    /\ UNCHANGED reader_vars

\* overall_status of a finished loop
OverallStatus(analyzed_papers, error_log) ==
    IF error_log = << >> THEN "success"
    ELSE IF analyzed_papers # << >> THEN "partial_error"
    ELSE "error"

\* batch_analyze_papers after its loop: the counts and the return
BatchReturn ==
    /\ pc = "batch"
    /\ idx = Len(valid_papers)
    /\ \E yolo_count \in {Cardinality({i \in 1..Len(analyzed) : analyzed[i].is_yolo_related})} :
           batch_return' = [overall_status |-> OverallStatus(analyzed, errors),
                            total_papers |-> total,
                            valid_papers_count |-> Len(valid_papers),
                            analyzed_count |-> Len(analyzed),
                            yolo_related_count |-> yolo_count,
                            non_yolo_related_count |-> Len(analyzed) - yolo_count,
                            analyzed_papers |-> analyzed,
                            error_log |-> errors]
    /\ pc' = "returned"
    /\ UNCHANGED <<dir_exists, dir_files, valid_papers, total, idx, analyzed, errors,
                   llm_result_in_locals, single_return, answered, single_call>>
    /\ UNCHANGED paper_vars
    /\ UNCHANGED reader_vars

\* what analyze_single_paper returns of a paper that loaded and of the
\* selection of its step 3
SingleSuccess(paper, is_yolo, selected) ==
    [status |-> "success",
     paper_info |-> paper,
     is_yolo_related |-> is_yolo,
     extraction_source |-> selected.extraction_source,
     analysis_result |-> selected.result_json]

\* what analyze_single_paper returns of a paper that did not load
SingleLoadError(structured_content) ==
    [status |-> "error", msg |-> <<"u5185","u5BB9","u52A0","u8F7D","u5931","u8D25","uFF1A">> \o structured_content.error]

analyze_single_paper(paper, answer) ==
    IF IsError(LOADED[paper.paper_path])
    THEN SingleLoadError(LOADED[paper.paper_path])
    ELSE SingleSuccess(paper, CLASSIFIED[paper.paper_path],
             SingleSelect(FALLBACK[paper.paper_path], CLASSIFIED[paper.paper_path], answer))

\* analyze_single_paper of one of the listed valid papers; the model client
\* is called only for a paper that loaded
AnalyzeSingle ==
    /\ pc = "menu"
    /\ dir_exists
    /\ \E papers \in {get_all_papers(dir_exists, dir_files)} :
           /\ papers[1].status = "valid"
           /\ \E p \in 1..Len(papers), a \in DOMAIN ANSWERS :
              \E result \in {analyze_single_paper(papers[p], ANSWERS[a])} :
                  /\ single_return' = result
                  /\ single_call' = [paper_path |-> papers[p].paper_path,
                                     answer |-> IF result.status = "error" THEN 0 ELSE a]
    /\ valid_papers' = << >>
    /\ total' = 0
    /\ idx' = 0
    /\ analyzed' = << >>
    /\ errors' = << >>
    /\ llm_result_in_locals' = FALSE
    /\ batch_return' = NoBatchReturn
    /\ answered' = << >>
    /\ pc' = "returned"
    /\ UNCHANGED <<dir_exists, dir_files>>
    /\ UNCHANGED paper_vars
    /\ UNCHANGED reader_vars

\* list_papers_terminal, the menu's listing of the folder: get_all_papers
\* creates a folder that is missing
ListPapers ==
    /\ pc = "menu"
    /\ ~dir_exists
    /\ get_all_papers(dir_exists, dir_files)[1].status = "empty"
    /\ dir_exists' = TRUE
    /\ UNCHANGED <<dir_files, pc, valid_papers, total, idx, analyzed, errors,
                   llm_result_in_locals, batch_return, single_return, answered, single_call>>
    /\ UNCHANGED paper_vars
    /\ UNCHANGED reader_vars

\* back in terminal_interaction's menu: what the analysis returned has been
\* shown and its locals are gone
Menu ==
    /\ pc = "returned"
    /\ pc' = "menu"
    /\ valid_papers' = << >>
    /\ total' = 0
    /\ idx' = 0
    /\ analyzed' = << >>
    /\ errors' = << >>
    /\ llm_result_in_locals' = FALSE
    /\ batch_return' = NoBatchReturn
    /\ single_return' = NoSingleReturn
    /\ answered' = << >>
    /\ single_call' = NoSingleCall
    /\ UNCHANGED <<dir_exists, dir_files>>
    /\ UNCHANGED paper_vars
    /\ UNCHANGED reader_vars

\* ------------------------------------------------------------------------
\* The steps of an analysis on one file: load, classify, extract
\* ------------------------------------------------------------------------

\* the stretch of text without keyword or separator that the texts carry
PAD == Filler(100)

\* the texts a page, a paragraph or a line of a file may hold
TEXTS ==
    {<<"Y","O","L","O"," ","o","b","j","e","c","t"," ","d","e","t","e","c","t","i","o","n"," ">> \o PAD,
     <<"A"," ","T","r","a","n","s","f","o","r","m","e","r"," ","f","o","r"," ","l","a","n","g","u","a","g","e"," ">> \o PAD,
     <<"I","t"," ","r","e","p","o","r","t","s"," ","m","A","P"," ","a","n","d"," ","F","P","S"," ">> \o PAD,
     <<"R","e","s","u","l","t","s","."," ",","," ","W","e"," ","c","o","m","p","a","r","e"," ","B","a","s","e","l","i","n","e","."," ">> \o PAD,
     <<"A","b","s","t","r","a","c","t"," ","W","e"," ","p","r","o","p","o","s","e"," ","a"," ","n","o","v","e","l"," ","h","e","a","d","."," ","C","o","n","c","l","u","s","i","o","n"," ","I","t"," ","i","s"," ","5","%"," ","b","e","t","t","e","r"," ">> \o PAD,
     PAD,
     <<"F","a","s","t"," ","D","e","t","e","c","t","i","o","n"," ","H","e","a","d","s">>,
     <<"A","b","s","t","r","a","c","t"," ","W","e"," ","p","r","o","p","o","s","e"," ","t","o"," ","i","m","p","r","o","v","e"," ">> \o Filler(160),
     <<"n","o","t","e","s","\n","\n","b","y"," ","a","@","b","\n","L","a","t","e"," ","T","i","t","l","e"," ","L","i","n","e"," ","H","e","r","e","\n","A","b","s","t","r","a","c","t"," ","a","b","\n","c","d","\n","t","h","i","r","d"," ","l","i","n","e"," ","o","f"," ","i","t","\n","\n">> \o PAD}

\* the texts a line of a text file may hold: a line holds no line break
LINE_TEXTS == {text \in TEXTS : ~Contains(text, <<"\n">>)}

\* the most pages, paragraphs or lines of a file
MaxUnits == 2

\* the names of the files, before the extension
STEMS == {<<"y","o","l","o","_","n","o","t","e","s">>, <<"p","a","p","e","r">>}

\* the extensions of the files
EXTENSIONS == {<<".","p","d","f">>, <<".","t","x","t">>}

\* the files: up to MaxUnits texts under one of the names
PaperFiles ==
    UNION {{[filename |-> stem \o ext, exists |-> TRUE, decode_error |-> << >>,
             units |-> units] :
               stem \in STEMS,
               units \in UNION {[1..k -> IF ext = <<".","t","x","t">> THEN LINE_TEXTS ELSE TEXTS] :
                                   k \in 0..MaxUnits}} :
           ext \in EXTENSIONS}

PaperInit ==
    /\ paper_file \in PaperFiles
    /\ paper_stage = "file"
    /\ paper_content = NoContent
    /\ paper_is_yolo = FALSE
    /\ paper_candidate = NoCandidate

\* step 1 of an analysis: load_paper_content(paper_path, file_ext)
LoadPaper ==
    /\ paper_stage = "file"
    /\ paper_content' = load_paper_content(paper_file, FileExtOf(paper_file.filename))
    /\ paper_stage' = "loaded"
    /\ UNCHANGED <<paper_file, paper_is_yolo, paper_candidate>>
    /\ UNCHANGED program_vars
    /\ UNCHANGED reader_vars

\* step 2 of an analysis, of a paper that loaded:
\* is_yolo_related_paper(structured_content, paper_name)
ClassifyPaper ==
    /\ paper_stage = "loaded"
    /\ ~IsError(paper_content)
    /\ paper_is_yolo' = is_yolo_related_paper(paper_content, PaperNameOf(paper_file.filename))
    /\ paper_stage' = "classified"
    /\ UNCHANGED <<paper_file, paper_content, paper_candidate>>
    /\ UNCHANGED program_vars
    /\ UNCHANGED reader_vars

\* generate_smart_fallback(structured_content, paper_name, is_yolo) of the
\* classified paper
ExtractPaper ==
    /\ paper_stage = "classified"
    /\ paper_candidate' = generate_smart_fallback(paper_content,
                              PaperNameOf(paper_file.filename), paper_is_yolo)
    /\ paper_stage' = "extracted"
    /\ UNCHANGED <<paper_file, paper_content, paper_is_yolo>>
    /\ UNCHANGED program_vars
    /\ UNCHANGED reader_vars


\* ------------------------------------------------------------------------
\* The readers pass by pass
\* ------------------------------------------------------------------------

\* n times the unit
Repeat(unit, n) == [i \in 1..n |-> unit]

\* the texts a page, a paragraph or a line of a file under a reader may hold
READER_TEXTS ==
    <<<<"x">>,
      <<"r","e","s","u","l","t"," ">> \o Filler(1993),
      <<"r","e","s","u","l","t">> \o Filler(960),
      <<"A","b","s","t","r","a","c","t">>,
      <<"a","b","s","t","r","a","c","t"," ","o","f"," ","t","h","e"," ","p","a","p","e","r">>,
      <<"R","e","s","u","l","t","s">>,
      Filler(955),
      Filler(31),
      <<" "," ">>>>

\* the places of the texts the short files are made of
SHORT_TEXTS == {1, 4, 5, 6, 9}

\* the most units of a short file
MaxShortUnits == 3

\* the short files: every sequence of up to MaxShortUnits short texts
ShortFiles == UNION {[1..k -> SHORT_TEXTS] : k \in 0..MaxShortUnits}

\* the longer files of a PDF: three and four pages that fill experiments to
\* 4999 characters and beyond, ten pages the last of which does, five pages
\* of results, and eleven pages the last of which read_pdf never reads
PDF_FILES ==
    {<<2, 2, 3>>,
     <<2, 2, 3, 2>>,
     <<2, 2, 3>> \o Repeat(1, 6) \o <<2>>,
     Repeat(2, 5),
     <<4>> \o Repeat(1, 9) \o <<5>>}

\* the longer files of Word: an abstract with three paragraphs behind it and
\* one with two, six paragraphs that fill experiments to exactly 3000
\* characters before a second match, and 51 paragraphs
WORD_FILES ==
    {<<5, 1, 1, 1>>,
     <<1, 5, 1, 1, 4>>,
     <<2, 6, 7, 1, 1, 8, 1>>,
     <<9, 6>> \o Repeat(1, 49) \o <<5>>}

\* the longer text files: an abstract with ten lines behind it and one with
\* nine, 21 lines that fill experiments to exactly 3000 characters before a
\* second match, and 101 lines
TXT_FILES ==
    {<<5>> \o Repeat(1, 10),
     <<1, 5>> \o Repeat(1, 9),
     <<2, 6>> \o Repeat(1, 18) \o <<7, 1>>,
     <<6>> \o Repeat(1, 99) \o <<5>>}

\* the texts of the units
TextsOf(units) == [k \in 1..Len(units) |-> READER_TEXTS[units[k]]]

\* the list the loops of read_word and read_txt scan: the stripped texts of
\* the paragraphs or lines that are not blank
ScannedUnits(units) == StrippedUnits(TextsOf(units))

\* what the readers of paragraphs and of lines differ in
READER_PARAMS ==
    [word |-> [home |-> WORD_HOME_PARAGRAPHS, max |-> WORD_MAX_PARAGRAPHS,
               abstract_after |-> WORD_ABSTRACT_AFTER,
               experiments_after |-> WORD_EXPERIMENTS_AFTER],
     txt |-> [home |-> TXT_HOME_LINES, max |-> TXT_MAX_LINES,
              abstract_after |-> TXT_ABSTRACT_AFTER,
              experiments_after |-> TXT_EXPERIMENTS_AFTER]]

\* the content read_word and read_txt build before their loops
TextHome(list, params) ==
    [home_page |-> Join(Take(list, params.home), <<"\n">>),
     abstract |-> << >>,
     experiments |-> << >>,
     conclusion |-> << >>,
     full_text |-> Join(Take(list, params.max), <<"\n">>)]

\* the test of the abstract loop on the unit at the 0-based index i
AbstractTest(list, i, after) ==
    Contains(Lower(list[i + 1]), <<"a","b","s","t","r","a","c","t">>) /\ i < Len(list) - after

\* the test of the experiments loop on the unit at the 0-based index i
ExperimentsTest(list, i, after) ==
    ContainsAny(Lower(list[i + 1]), TEXT_EXPERIMENT_KEYWORDS) /\ i < Len(list) - after

ReaderInit ==
    /\ reader_kind \in {"pdf", "word", "txt"}
    /\ reader_units \in
           ShortFiles \cup (CASE reader_kind = "pdf" -> PDF_FILES
                              [] reader_kind = "word" -> WORD_FILES
                              [] reader_kind = "txt" -> TXT_FILES)
    /\ reader_pc = "file"
    /\ reader_i = 0
    /\ reader_content = [error |-> << >>]

\* read_pdf up to its loop
PdfOpen ==
    /\ reader_kind = "pdf"
    /\ reader_pc = "file"
    /\ reader_content' = ReadPdfHome(TextsOf(reader_units))
    /\ reader_pc' = "pages"
    /\ reader_i' = 0
    /\ UNCHANGED <<reader_kind, reader_units>>
    /\ UNCHANGED <<program_vars, paper_vars>>

\* one pass of read_pdf's loop
PdfPage ==
    /\ reader_pc = "pages"
    /\ reader_i < MinOf(PDF_MAX_PAGES, Len(reader_units))
    /\ reader_content' = ReadPdfPage(reader_content, READER_TEXTS[reader_units[reader_i + 1]],
                                     reader_i)
    /\ reader_i' = reader_i + 1
    /\ UNCHANGED <<reader_kind, reader_units, reader_pc>>
    /\ UNCHANGED <<program_vars, paper_vars>>

\* read_pdf after its loop: return content
PdfReturn ==
    /\ reader_pc = "pages"
    /\ reader_i >= MinOf(PDF_MAX_PAGES, Len(reader_units))
    /\ reader_pc' = "done"
    /\ UNCHANGED <<reader_kind, reader_units, reader_i, reader_content>>
    /\ UNCHANGED <<program_vars, paper_vars>>

\* read_word and read_txt up to their loops
TextOpen ==
    /\ reader_kind \in {"word", "txt"}
    /\ reader_pc = "file"
    /\ reader_content' = TextHome(ScannedUnits(reader_units), READER_PARAMS[reader_kind])
    /\ reader_pc' = "abstract"
    /\ reader_i' = 0
    /\ UNCHANGED <<reader_kind, reader_units>>
    /\ UNCHANGED <<program_vars, paper_vars>>

\* one pass of the abstract loop of read_word and read_txt, or the loop's
\* end: a unit that passes the test sets abstract and breaks the loop
AbstractPass ==
    /\ reader_pc = "abstract"
    /\ \E list \in {ScannedUnits(reader_units)} :
       \E after \in {READER_PARAMS[reader_kind].abstract_after} :
          IF reader_i >= Len(list)
          THEN /\ reader_pc' = "experiments"
               /\ reader_i' = 0
               /\ UNCHANGED reader_content
          ELSE IF AbstractTest(list, reader_i, after)
          THEN /\ reader_content' = [reader_content EXCEPT
                      !.abstract = Join(ListSlice(list, reader_i, reader_i + after + 1), <<"\n">>)]
               /\ reader_pc' = "experiments"
               /\ reader_i' = 0
          ELSE /\ reader_i' = reader_i + 1
               /\ UNCHANGED <<reader_pc, reader_content>>
    /\ UNCHANGED <<reader_kind, reader_units>>
    /\ UNCHANGED <<program_vars, paper_vars>>

\* one pass of the experiments loop of read_word and read_txt, or the
\* loop's end and the return: a unit that passes the test adds itself and
\* the units behind it, and the loop breaks once experiments exceeds the cap
ExperimentsPass ==
    /\ reader_pc = "experiments"
    /\ \E list \in {ScannedUnits(reader_units)} :
       \E after \in {READER_PARAMS[reader_kind].experiments_after} :
          IF reader_i >= Len(list)
          THEN /\ reader_pc' = "done"
               /\ UNCHANGED <<reader_i, reader_content>>
          ELSE IF ExperimentsTest(list, reader_i, after)
          THEN \E added \in {reader_content.experiments
                                \o Join(ListSlice(list, reader_i, reader_i + after + 1), <<"\n">>)} :
                  /\ reader_content' = [reader_content EXCEPT !.experiments = added]
                  /\ IF Len(added) > TEXT_EXPERIMENTS_CAP
                     THEN reader_pc' = "done" /\ UNCHANGED reader_i
                     ELSE reader_i' = reader_i + 1 /\ UNCHANGED reader_pc
          ELSE /\ reader_i' = reader_i + 1
               /\ UNCHANGED <<reader_pc, reader_content>>
    /\ UNCHANGED <<reader_kind, reader_units>>
    /\ UNCHANGED <<program_vars, paper_vars>>
\* ------------------------------------------------------------------------
\* Properties of batch_analyze_papers and analyze_single_paper (under Spec)
\* ------------------------------------------------------------------------

\* the entries of analyzed for the paper at path
AnalyzedOf(path) == {k \in DOMAIN analyzed : analyzed[k].paper_path = path}

\* the entries of errors for the paper of that name
LoggedOf(paper_name) == {k \in DOMAIN errors : StartsWith(errors[k], paper_name \o <<"uFF1A">>)}

\* batch_analyze_papers has returned from a folder with valid papers
BatchReturned == pc = "returned" /\ valid_papers # << >>

\* the return carries the loop's lists, and the loop has passed every paper
ReturnedFromLoop ==
    /\ idx = Len(valid_papers)
    /\ batch_return.analyzed_papers = analyzed
    /\ batch_return.error_log = errors

\* C1: in batch analysis a paper whose loading fails is recorded in
\* error_log and the papers after it are still processed: every valid paper
\* the loop has passed is exactly once in analyzed or in errors (in errors
\* exactly when it did not load), no paper ahead of the loop is in either,
\* and the call returns the two lists after the last paper.
C1_PartialFailureIsolation ==
    /\ \A i \in DOMAIN valid_papers :
          LET paper == valid_papers[i]
              in_analyzed == Cardinality(AnalyzedOf(paper.paper_path))
              in_errors == Cardinality(LoggedOf(paper.paper_name))
          IN  IF i <= idx
              THEN /\ in_analyzed + in_errors = 1
                   /\ in_errors = 1 <=> IsError(LOADED[paper.paper_path])
              ELSE in_analyzed + in_errors = 0
    /\ BatchReturned => ReturnedFromLoop

\* a batch has returned in which a file that does not decode and a file
\* that is too short were logged and the paper after them was analysed
C1_Witness ==
    /\ BatchReturned
    /\ Len(valid_papers) = 3
    /\ IsError(LOADED[valid_papers[1].paper_path])
    /\ IsError(LOADED[valid_papers[2].paper_path])
    /\ READ[valid_papers[1].paper_path] # READ[valid_papers[2].paper_path]
    /\ IsError(READ[valid_papers[1].paper_path]) # IsError(READ[valid_papers[2].paper_path])
    /\ Len(errors) = 2
    /\ AnalyzedOf(valid_papers[3].paper_path) # {}
    /\ batch_return.overall_status = "partial_error"

\* the answer of the model client does not become the result of the pass:
\* the client raises, or the inner try of the loop raises on its text
FellBack(is_yolo, a) ==
    \/ ANSWERS[a].raises
    \/ BatchValidate(StripFence(ANSWERS[a].text), is_yolo).exc # ""

\* C2: a failure of the model call or an invalid output of the model is
\* never a paper's error: every paper that loaded and that the loop has
\* passed has an entry in analyzed and none in errors, errors holds the
\* papers that did not load and nothing else, the call never returns its
\* own failure, and analyze_single_paper of a paper that loaded returns
\* status success, whatever the model client did.
C2_ModelFailureRecovered ==
    /\ \A i \in DOMAIN valid_papers :
          (i <= idx /\ ~IsError(LOADED[valid_papers[i].paper_path])) =>
              /\ AnalyzedOf(valid_papers[i].paper_path) # {}
              /\ LoggedOf(valid_papers[i].paper_name) = {}
    /\ Len(errors) = Cardinality({i \in DOMAIN valid_papers :
                         i <= idx /\ IsError(LOADED[valid_papers[i].paper_path])})
    /\ BatchReturned => ReturnedFromLoop
    /\ (single_call.paper_path # 0 /\ ~IsError(LOADED[single_call.paper_path])) =>
           single_return.status = "success"

\* a batch has returned without an error although the model client raised
\* on one paper and gave an answer the inner try rejects on another
C2_Witness ==
    /\ BatchReturned
    /\ errors = << >>
    /\ \E k \in DOMAIN analyzed : ANSWERS[answered[k]].raises
    /\ \E k \in DOMAIN analyzed :
          /\ ~ANSWERS[answered[k]].raises
          /\ FellBack(analyzed[k].is_yolo_related, answered[k])
    /\ batch_return.overall_status = "success"

\* C3: in batch analysis the extraction_source of every entry is the
\* heuristic tag whenever the entry's result is the heuristic candidate
\* because the model call raised or its output did not pass the inner try,
\* and it is the model tag only when the result is the model's candidate.
C3_ProvenanceTag ==
    \A k \in DOMAIN analyzed :
        LET entry == analyzed[k]
            fell == FellBack(entry.is_yolo_related, answered[k])
        IN  /\ fell => entry.extraction_source = SOURCE_FALLBACK
            /\ entry.extraction_source = SOURCE_LLM =>
                   /\ ~fell
                   /\ entry.analysis_result =
                          BatchValidate(StripFence(ANSWERS[answered[k]].text),
                                        entry.is_yolo_related).value

\* an entry whose result is the heuristic candidate, the model's text not
\* being JSON, and whose extraction_source is the model tag
C3_Witness ==
    \E k \in DOMAIN analyzed :
        /\ ~ANSWERS[answered[k]].raises
        /\ JsonLoads(StripFence(ANSWERS[answered[k]].text)).exc = "JSONDecodeError"
        /\ analyzed[k].analysis_result = FALLBACK[analyzed[k].paper_path]
        /\ analyzed[k].extraction_source = SOURCE_LLM

\* result_json["innovation_point"]["pseudo_code"] of a returned result
PseudoCodeOf(result_json) == result_json.items.innovation_point.items.pseudo_code

\* C4: for every paper that is not YOLO related the pseudo_code of the
\* returned result is the fixed sentinel, in every entry of analyzed and in
\* the return of analyze_single_paper, whichever candidate is returned and
\* whatever pseudo_code the model's candidate held.
C4_PseudoCodeSentinel ==
    /\ \A k \in DOMAIN analyzed :
          ~analyzed[k].is_yolo_related =>
              PseudoCodeOf(analyzed[k].analysis_result) = JStr(PSEUDO_CODE_SENTINEL)
    /\ (single_return.status = "success" /\ ~single_return.is_yolo_related) =>
           PseudoCodeOf(single_return.analysis_result) = JStr(PSEUDO_CODE_SENTINEL)

\* an entry of a paper that is not YOLO related whose result is the model's
\* candidate, the model having answered with pseudo-code of its own
C4_Witness ==
    \E k \in DOMAIN analyzed :
        /\ ~analyzed[k].is_yolo_related
        /\ ~FellBack(FALSE, answered[k])
        /\ PseudoCodeOf(JsonLoads(StripFence(ANSWERS[answered[k]].text)).value)
               = JStr(MODEL_CODE)
        /\ analyzed[k].analysis_result # FALLBACK[analyzed[k].paper_path]
        /\ PseudoCodeOf(analyzed[k].analysis_result) = JStr(PSEUDO_CODE_SENTINEL)

\* the keys of the expected nested structure, CORE_FIELDS: a string under a
\* key without sub-keys, a dict of strings under the others
EXPECTED_STRUCTURE ==
    [paper_title |-> {},
     is_yolo_related |-> {},
     innovation_point |-> {"core_innovation", "innovation_value", "pseudo_code"},
     math_derivation |-> {"key_formulas", "derivation_steps", "math_advantage"},
     reproduction_steps |-> {"data_prep", "env_config", "hardware_req", "core_steps",
                             "code_info"},
     comparison_experiments |-> {"compared_methods", "evaluation_metrics", "key_results",
                                 "experiment_conclusion"}]

\* the decoded value has the expected nested structure
HasExpectedStructure(json) ==
    /\ json.type = "dict"
    /\ DOMAIN json.items = DOMAIN EXPECTED_STRUCTURE
    /\ \A key \in DOMAIN EXPECTED_STRUCTURE :
          IF EXPECTED_STRUCTURE[key] = {}
          THEN json.items[key].type = "str"
          ELSE /\ json.items[key].type = "dict"
               /\ DOMAIN json.items[key].items = EXPECTED_STRUCTURE[key]
               /\ \A leaf \in EXPECTED_STRUCTURE[key] :
                     json.items[key].items[leaf].type = "str"

\* the text the model client returned does not pass the validation gate: it
\* is not the JSON of the expected nested structure, or its paper_title or
\* its is_yolo_related is blank
FailsGate(a) ==
    LET decoded == JsonLoads(StripFence(ANSWERS[a].text))
    IN  \/ decoded.exc # ""
        \/ ~HasExpectedStructure(decoded.value)
        \/ Strip(decoded.value.items.paper_title.str) = << >>
        \/ Strip(decoded.value.items.is_yolo_related.str) = << >>

\* C5: in batch and in single-paper analysis a candidate of the model that
\* does not pass the validation gate is discarded: the returned result is
\* the heuristic candidate.
C5_ValidationGate ==
    /\ \A k \in DOMAIN analyzed :
          (~ANSWERS[answered[k]].raises /\ FailsGate(answered[k])) =>
              analyzed[k].analysis_result = FALLBACK[analyzed[k].paper_path]
    /\ (/\ single_return.status = "success"
        /\ ~ANSWERS[single_call.answer].raises
        /\ FailsGate(single_call.answer)) =>
           single_return.analysis_result = FALLBACK[single_call.paper_path]

\* analyze_single_paper has returned, as the model's result, a candidate
\* whose paper_title is blank
C5_Witness ==
    /\ single_return.status = "success"
    /\ single_return.extraction_source = SOURCE_LLM
    /\ single_return.analysis_result.type = "dict"
    /\ "paper_title" \in DOMAIN single_return.analysis_result.items
    /\ single_return.analysis_result.items.paper_title.type = "str"
    /\ Strip(single_return.analysis_result.items.paper_title.str) = << >>
    /\ single_return.analysis_result # FALLBACK[single_call.paper_path]

\* C7: no state crosses the papers of a batch: every entry of analyzed is
\* the entry the pass computes from the paper's own content, name and model
\* answer alone, whatever papers were passed before it.
C7_NoCrossDocumentState ==
    \A k \in DOMAIN analyzed :
        LET path == analyzed[k].paper_path
            alone == BatchSelect(FALLBACK[path], CLASSIFIED[path], ANSWERS[answered[k]])
        IN  analyzed[k] =
                AnalyzedEntry([paper_name |-> PaperName[path], paper_path |-> path],
                              CLASSIFIED[path], alone.result_json, alone.assigned)

\* the model client raised on a paper, the client answered on a paper
\* before it, and the paper's entry carries the model tag
C7_Witness ==
    \E j, k \in DOMAIN analyzed :
        /\ j < k
        /\ ~ANSWERS[answered[j]].raises
        /\ ANSWERS[answered[k]].raises
        /\ analyzed[k].analysis_result = FALLBACK[analyzed[k].paper_path]
        /\ analyzed[k].extraction_source = SOURCE_LLM

\* C10: load_paper_content gives an error marker for every file whose
\* full_text has fewer than 200 characters and the content the reader gave
\* for every file that decodes to at least 200; so in batch analysis a
\* paper the loop has passed whose full_text is shorter is in errors and not
\* in analyzed, every entry of analyzed and every successful single
\* analysis is of a content of at least 200 characters.
C10_ContentTooShort ==
    /\ \A i \in DOMAIN valid_papers :
          LET paper == valid_papers[i]
              content == READ[paper.paper_path]
          IN  (i <= idx /\ ~IsError(content)) =>
                  IF Len(content.full_text) < 200
                  THEN /\ IsError(LOADED[paper.paper_path])
                       /\ LoggedOf(paper.paper_name) # {}
                       /\ AnalyzedOf(paper.paper_path) = {}
                  ELSE /\ LOADED[paper.paper_path] = content
                       /\ AnalyzedOf(paper.paper_path) # {}
    /\ \A k \in DOMAIN analyzed :
          /\ ~IsError(READ[analyzed[k].paper_path])
          /\ Len(READ[analyzed[k].paper_path].full_text) >= 200
    /\ single_call.paper_path # 0 =>
          (single_return.status = "success" <=>
              /\ ~IsError(READ[single_call.paper_path])
              /\ Len(READ[single_call.paper_path].full_text) >= 200)

\* a batch has returned in which a file whose full_text has 199 characters
\* was logged and a file whose full_text has exactly 200 was analysed
C10_Witness ==
    /\ BatchReturned
    /\ \E i \in DOMAIN valid_papers :
          /\ ~IsError(READ[valid_papers[i].paper_path])
          /\ Len(READ[valid_papers[i].paper_path].full_text) = 199
          /\ LoggedOf(valid_papers[i].paper_name) # {}
    /\ \E k \in DOMAIN analyzed :
          Len(READ[analyzed[k].paper_path].full_text) = 200

\* ------------------------------------------------------------------------
\* Properties of the classifier and the extractors (under SpecPaper)
\* ------------------------------------------------------------------------

\* the file has been classified
Classified == paper_stage \in {"classified", "extracted"}

\* the lowercased full_text holds a keyword of the negative set
HoldsNegative == ContainsAny(Lower(paper_content.full_text), NON_YOLO_KEYWORDS)

\* the keywords, lowercased
LowerAll(keywords) == {Lower(kw) : kw \in keywords}

\* the full_text or the paper's name holds, letter case aside, a keyword of
\* the positive set
HoldsPositive ==
    \/ ContainsAny(Lower(paper_content.full_text), LowerAll(YOLO_KEYWORDS))
    \/ ContainsAny(Lower(PaperNameOf(paper_file.filename)), LowerAll(YOLO_KEYWORDS))

\* C6: every leaf of the heuristic candidate generate_smart_fallback builds
\* is a non-empty string, for every content and name.
C6_NoEmptyLeaf ==
    paper_stage = "extracted" =>
        \A key \in DOMAIN paper_candidate :
            IF key \in {"paper_title", "is_yolo_related"}
            THEN paper_candidate[key] # << >>
            ELSE \A leaf \in DOMAIN paper_candidate[key] :
                     paper_candidate[key][leaf] # << >>

\* a candidate whose compared_methods is the empty string
C6_Witness ==
    /\ paper_stage = "extracted"
    /\ paper_candidate.comparison_experiments.compared_methods = << >>

\* C8: a paper whose lowercased full_text holds a negative keyword is
\* classified as not YOLO related, also when its text or its name holds a
\* positive keyword.
C8_NegativePrecedence ==
    (Classified /\ HoldsNegative) => ~paper_is_yolo

\* a classified paper whose text holds a negative keyword and a positive
\* one and whose name holds a positive one
C8_Witness ==
    /\ Classified
    /\ HoldsNegative
    /\ Contains(Lower(paper_content.full_text), <<"y","o","l","o">>)
    /\ Contains(Lower(PaperNameOf(paper_file.filename)), <<"y","o","l","o">>)
    /\ ~paper_is_yolo

\* C9: a paper whose full_text holds no negative keyword is classified as
\* YOLO related exactly when its full_text or its name holds, letter case
\* aside, a keyword of the positive set, "mAP" and "FPS" included.
C9_PositiveRule ==
    (Classified /\ ~HoldsNegative) => (paper_is_yolo <=> HoldsPositive)

\* a classified paper without a negative keyword whose text holds "mAP" and
\* "FPS" and which is classified as not YOLO related
C9_Witness ==
    /\ Classified
    /\ ~HoldsNegative
    /\ Contains(paper_content.full_text, <<"m","A","P">>)
    /\ Contains(paper_content.full_text, <<"F","P","S">>)
    /\ ~paper_is_yolo


\* ------------------------------------------------------------------------
\* Further properties of batch_analyze_papers and analyze_single_paper
\* (under Spec)
\* ------------------------------------------------------------------------

\* C11: batch_analyze_papers returns overall_status "error" only when the
\* folder holds no valid paper: a call that found valid papers returns
\* another overall_status, also when some or all of them did not load.
C11_FatalOnlyWithoutValidPaper ==
    (pc = "returned" /\ batch_return.overall_status = "error") => valid_papers = << >>

\* a batch over two valid papers, neither of which loads, has returned
\* overall_status "error" after its loop
C11_Witness ==
    /\ BatchReturned
    /\ Len(valid_papers) = 2
    /\ idx = 2
    /\ Len(errors) = 2
    /\ analyzed = << >>
    /\ batch_return.overall_status = "error"
    /\ batch_return.error_log = errors

\* the decoded candidate with pseudo_code of innovation_point set to the
\* fixed sentinel, every other field as the model gave it
WithSentinel(json) ==
    IF HasKey(json, "innovation_point") /\ json.items.innovation_point.type = "dict"
    THEN [json EXCEPT !.items.innovation_point.items =
             [k \in DOMAIN @ \cup {"pseudo_code"} |->
                 IF k = "pseudo_code" THEN JStr(PSEUDO_CODE_SENTINEL) ELSE @[k]]]
    ELSE json

\* result_json is one candidate whole: the heuristic candidate of the
\* paper, or what the model's text decodes to, pseudo_code aside
OneCandidateWhole(result_json, path, a) ==
    \/ result_json = FALLBACK[path]
    \/ /\ ~ANSWERS[a].raises
       /\ JsonLoads(StripFence(ANSWERS[a].text)).exc = ""
       /\ \/ result_json = JsonLoads(StripFence(ANSWERS[a].text)).value
          \/ result_json = WithSentinel(JsonLoads(StripFence(ANSWERS[a].text)).value)

\* C12: the result of a paper is one candidate whole, in every entry of
\* analyzed and in the return of analyze_single_paper: it is the heuristic
\* candidate, or the candidate the model's text decodes to with at most its
\* pseudo_code replaced by the sentinel; no result holds fields of both.
C12_AllOrNothing ==
    /\ \A k \in DOMAIN analyzed :
          OneCandidateWhole(analyzed[k].analysis_result, analyzed[k].paper_path, answered[k])
    /\ single_return.status = "success" =>
          OneCandidateWhole(single_return.analysis_result, single_call.paper_path,
                            single_call.answer)

\* a batch holds an entry whose result is the heuristic candidate although
\* the model's text decoded to a dict with every group of fields (its
\* paper_title was blank), and an entry whose result is the model's
\* candidate with only its pseudo_code replaced
C12_Witness ==
    /\ \E k \in DOMAIN analyzed :
          LET decoded == JsonLoads(StripFence(ANSWERS[answered[k]].text))
          IN  /\ ~ANSWERS[answered[k]].raises
              /\ decoded.exc = ""
              /\ HasExpectedStructure(decoded.value)
              /\ analyzed[k].analysis_result = FALLBACK[analyzed[k].paper_path]
    /\ \E j \in DOMAIN analyzed :
          LET decoded == JsonLoads(StripFence(ANSWERS[answered[j]].text))
          IN  /\ ~ANSWERS[answered[j]].raises
              /\ decoded.exc = ""
              /\ analyzed[j].analysis_result # decoded.value
              /\ analyzed[j].analysis_result = WithSentinel(decoded.value)
              /\ analyzed[j].analysis_result # FALLBACK[analyzed[j].paper_path]

\* ------------------------------------------------------------------------
\* Further properties of the extractors (under SpecPaper)
\* ------------------------------------------------------------------------

\* the caps CORE_FIELDS states for core_innovation and innovation_value
CORE_INNOVATION_CAP == 150

INNOVATION_VALUE_CAP == 100

\* C14: for every content the core_innovation of the heuristic candidate
\* has at most 150 characters and its innovation_value at most 100, the
\* ellipsis of a truncated value included.
C14_InnovationCaps ==
    paper_stage = "extracted" =>
        /\ Len(paper_candidate.innovation_point.core_innovation) <= CORE_INNOVATION_CAP
        /\ Len(paper_candidate.innovation_point.innovation_value) <= INNOVATION_VALUE_CAP

\* a candidate whose core_innovation is 150 characters of a longer sentence
\* and an ellipsis, 153 in all, and whose innovation_value is 100 characters
\* and an ellipsis, 103 in all
C14_Witness ==
    /\ paper_stage = "extracted"
    /\ Len(paper_candidate.innovation_point.core_innovation) = 153
    /\ Len(paper_candidate.innovation_point.innovation_value) = 103
    /\ Slice(paper_candidate.innovation_point.core_innovation, 150, 153) = <<".",".",".">>
    /\ Slice(paper_candidate.innovation_point.innovation_value, 100, 103) = <<".",".",".">>

\* the k-th of the lines of text, stripped; empty when there is none
LineOf(text, k) == IF k <= Len(Lines(text)) THEN Strip(Lines(text)[k]) ELSE << >>

\* a line of home_page that qualifies as the title: longer than 5, without
\* a mark of an author or an affiliation, title-cased or upper-cased
QualifiesHome(line) ==
    /\ Len(line) > 5
    /\ \A c \in TITLE_FORBIDDEN : ~Contains(line, <<c>>)
    /\ (IsTitle(line) \/ IsUpper(line))

\* a line of abstract that qualifies as the title
QualifiesAbstract(line) ==
    Len(line) > 5 /\ ~StartsWith(Lower(line), <<"a","b","s","t","r","a","c","t">>)

\* the places among the first 3 lines of home_page and among the first 2
\* lines of abstract that hold a qualifying line
HomePlaces == {k \in 1..3 : QualifiesHome(LineOf(paper_content.home_page, k))}

AbstractPlaces == {k \in 1..2 : QualifiesAbstract(LineOf(paper_content.abstract, k))}

FILENAME_MARKER == <<"u4ECE","u6587","u4EF6","u540D","u63D0","u53D6","uFF1A">>

C18_WitnessAbstract ==
    /\ paper_stage = "extracted"
    /\ HomePlaces = {}
    /\ AbstractPlaces # {}
    /\ paper_candidate.paper_title = LineOf(paper_content.abstract, Min(AbstractPlaces))

\* a candidate whose title comes from the file name, home_page holding a
\* qualifying line only as its 4th and the abstract only as its 3rd
C18_WitnessFilename ==
    /\ paper_stage = "extracted"
    /\ HomePlaces = {}
    /\ QualifiesHome(LineOf(paper_content.home_page, 4))
    /\ AbstractPlaces = {}
    /\ QualifiesAbstract(LineOf(paper_content.abstract, 3))
    /\ StartsWith(paper_candidate.paper_title, FILENAME_MARKER)

\* C19: the heuristic candidate generate_smart_fallback builds has the
\* sentinel of a paper that is not YOLO related as its pseudo_code for both
\* values of the relevance flag: a paper classified as YOLO related gets
\* is_yolo_related "yes" together with the sentinel.
C19_FallbackPseudoCode ==
    paper_stage = "extracted" =>
        /\ paper_candidate.innovation_point.pseudo_code = PSEUDO_CODE_SENTINEL
        /\ paper_candidate.is_yolo_related = (IF paper_is_yolo THEN <<"u662F">> ELSE <<"u5426">>)

\* the candidate of a paper classified as YOLO related: is_yolo_related is
\* "yes" and pseudo_code is the sentinel
C19_Witness ==
    /\ paper_stage = "extracted"
    /\ paper_is_yolo
    /\ paper_candidate.is_yolo_related = <<"u662F">>
    /\ paper_candidate.innovation_point.pseudo_code = PSEUDO_CODE_SENTINEL

\* ------------------------------------------------------------------------
\* Properties of the readers (under SpecReader)
\* ------------------------------------------------------------------------

\* the reader has built its content
ReaderOpened == reader_pc \in {"pages", "abstract", "experiments", "done"}

\* the passes of a reader agree with the reader as a whole
ReaderAgrees ==
    reader_pc = "done" =>
        reader_content = (CASE reader_kind = "pdf" -> read_pdf(TextsOf(reader_units))
                            [] reader_kind = "word" -> read_word(TextsOf(reader_units))
                            [] reader_kind = "txt" -> read_txt(TextsOf(reader_units)))

\* C13 as claimed: after any sequence of pages the experiments of read_pdf
\* exceeds the cap of 5000 characters by at most the 2000 characters of one
\* slice, so it never has more than 7000 characters.
C13_WithinOneSlice ==
    (reader_kind = "pdf" /\ ReaderOpened) =>
        Len(reader_content.experiments) <= PDF_EXPERIMENTS_CAP + PDF_EXPERIMENTS_SLICE

\* the longest marker a page puts before its slice in experiments
LONGEST_MARKER == <<"u3010","u7B2C">> \o Decimal(PDF_MAX_PAGES) \o <<"u9875","u5B9E","u9A8C","u5185","u5BB9","u3011","\n">>

\* C13 as amended: after any sequence of pages the experiments of read_pdf
\* has at most 7011 characters: the 4999 that still pass the test of the
\* cap, and one contribution of a marker of up to 11 characters, a slice of
\* up to 2000 characters and a line break.
C13_WithinSliceAndMarker ==
    (reader_kind = "pdf" /\ ReaderOpened) =>
        Len(reader_content.experiments)
            <= (PDF_EXPERIMENTS_CAP - 1) + Len(LONGEST_MARKER) + PDF_EXPERIMENTS_SLICE + 1

\* read_pdf has returned experiments of 7011 characters: the tenth page
\* came upon 4999 characters and added its marker, 2000 characters and a
\* line break
C13_Witness ==
    /\ reader_kind = "pdf"
    /\ reader_pc = "done"
    /\ Len(reader_units) = 10
    /\ Len(reader_content.experiments) = 7011

\* the cap of the reader's experiments
ExperimentsCap == IF reader_kind = "pdf" THEN PDF_EXPERIMENTS_CAP ELSE TEXT_EXPERIMENTS_CAP

\* C15: in the three readers, once experiments has reached its cap (5000
\* characters for pages, 3000 for paragraphs and lines) no later unit adds
\* to it.
C15_StopsAtCap ==
    [][(/\ reader_pc \in {"pages", "experiments"}
        /\ Len(reader_content.experiments) >= ExperimentsCap)
          => reader_content'.experiments = reader_content.experiments]_reader_vars

\* read_word has returned experiments that holds, behind the 3000
\* characters of the first match and the five paragraphs after it, what a
\* second match added
C15_Witness ==
    /\ reader_kind = "word"
    /\ reader_pc = "done"
    /\ Len(ScannedUnits(reader_units)) > 6
    /\ Len(Join(ListSlice(ScannedUnits(reader_units), 0, 6), <<"\n">>)) = TEXT_EXPERIMENTS_CAP
    /\ Len(reader_content.experiments) > TEXT_EXPERIMENTS_CAP
    /\ Slice(reader_content.experiments, 0, TEXT_EXPERIMENTS_CAP)
           = Join(ListSlice(ScannedUnits(reader_units), 0, 6), <<"\n">>)

\* the units the reader scans for the abstract: the pages, or the stripped
\* paragraphs or lines
AbstractUnits ==
    IF reader_kind = "pdf" THEN TextsOf(reader_units) ELSE ScannedUnits(reader_units)

\* how many of them the reader has passed in its scan for the abstract
AbstractPassed ==
    IF reader_pc \in {"pages", "abstract"} THEN reader_i
    ELSE IF reader_kind = "pdf" THEN MinOf(PDF_MAX_PAGES, Len(reader_units))
    ELSE Len(AbstractUnits)

\* the places of the passed units whose lowercased text holds "abstract"
AbstractMatches ==
    {k \in 1..AbstractPassed : Contains(Lower(AbstractUnits[k]), <<"a","b","s","t","r","a","c","t">>)}

\* the abstract the unit at place k gives: of a page the text behind the
\* token up to the first blank line, of a paragraph or line the unit and the
\* 3 or 10 units behind it, nothing when fewer are behind it
AbstractOf(k) ==
    IF reader_kind = "pdf" THEN RegionAfter(AbstractUnits[k], <<"a","b","s","t","r","a","c","t">>)
    ELSE LET after == READER_PARAMS[reader_kind].abstract_after
         IN  IF k - 1 < Len(AbstractUnits) - after
             THEN Join(ListSlice(AbstractUnits, k - 1, k + after), <<"\n">>)
             ELSE << >>

\* C16: the abstract is the one the first unit gives whose lowercased text
\* holds "abstract": once the reader has passed that unit no later unit sets
\* or changes the abstract, also when the first match gave an empty region;
\* before that unit the abstract is empty.
C16_FirstMatchWins ==
    ReaderOpened =>
        reader_content.abstract =
            (IF AbstractMatches = {} THEN << >> ELSE AbstractOf(Min(AbstractMatches)))

\* read_pdf has returned an abstract that a later page gave, the first page
\* that holds "abstract" having given an empty region
C16_Witness ==
    /\ reader_kind = "pdf"
    /\ reader_pc = "done"
    /\ Cardinality(AbstractMatches) >= 2
    /\ AbstractOf(Min(AbstractMatches)) = << >>
    /\ reader_content.abstract # << >>
    /\ \E k \in AbstractMatches \ {Min(AbstractMatches)} :
           reader_content.abstract = AbstractOf(k)

\* the texts of the pages from the k-th up to the last, each behind the
\* marker of its own page index and before a line break
RECURSIVE MarkedPages(_, _, _)
MarkedPages(pages, k, last) ==
    IF k > last THEN << >>
    ELSE <<"u3010","u7B2C">> \o Decimal(k) \o <<"u9875","u3011","\n">> \o pages[k] \o <<"\n">>
             \o MarkedPages(pages, k + 1, last)

\* the first M units in order, each once
FirstUnitsOnce ==
    IF reader_kind = "pdf"
    THEN MarkedPages(TextsOf(reader_units), 1, MinOf(PDF_MAX_PAGES, Len(reader_units)))
    ELSE Join(Take(ScannedUnits(reader_units), READER_PARAMS[reader_kind].max), <<"\n">>)

\* C17: the full_text a reader returns is the first M units in order (10
\* pages, 50 paragraphs, 100 lines), each once and none beyond the M-th, a
\* page behind the marker of its own index; so the length load_paper_content
\* compares with 200 counts the text of each unit once.
C17_FullTextOnce ==
    reader_pc = "done" => reader_content.full_text = FirstUnitsOnce

\* read_pdf has returned, of a file of one page, a full_text that holds the
\* page's text twice: behind the marker of the home page and behind the
\* marker of page 1
C17_Witness ==
    /\ reader_kind = "pdf"
    /\ reader_pc = "done"
    /\ Len(reader_units) = 1
    /\ reader_content.full_text =
           <<"u3010","u9996","u9875","u3011","\n">> \o READER_TEXTS[reader_units[1]] \o <<"\n">>
               \o <<"u3010","u7B2C","1","u9875","u3011","\n">> \o READER_TEXTS[reader_units[1]] \o <<"\n">>
    /\ Len(reader_content.full_text) > Len(FirstUnitsOnce)
\* ------------------------------------------------------------------------
\* Specifications
\* ------------------------------------------------------------------------

vars == <<program_vars, paper_vars, reader_vars>>

\* the program on the folders of Listings
Init == ProgramInit /\ PaperIdle /\ ReaderIdle

Next == ListPapers \/ BatchStart \/ BatchPaper \/ BatchReturn \/ AnalyzeSingle \/ Menu

Spec == Init /\ [][Next]_vars

\* the steps of an analysis on the files of PaperFiles
InitPaper ==
    PaperInit /\ ProgramIdle /\ dir_exists = TRUE /\ dir_files = << >> /\ ReaderIdle

NextPaper == LoadPaper \/ ClassifyPaper \/ ExtractPaper

SpecPaper == InitPaper /\ [][NextPaper]_vars

\* a reader on the files of ShortFiles and on the longer files of its kind
InitReader ==
    ReaderInit /\ ProgramIdle /\ dir_exists = TRUE /\ dir_files = << >> /\ PaperIdle

NextReader ==
    PdfOpen \/ PdfPage \/ PdfReturn \/ TextOpen \/ AbstractPass \/ ExperimentsPass

SpecReader == InitReader /\ [][NextReader]_vars

====
